---- MODULE Spec2Model ----
(***************************************************************************)
(* CloudPoints: the particle-to-texture codec (SimpleExporter,             *)
(* TextureLoader) and the useParticleData hook that drives it.             *)
(*                                                                         *)
(* JavaScript numbers are modelled as exact rationals <<n, d>> with d > 0  *)
(* and gcd(n, d) = 1; bytes of an ImageData buffer are integers 0..255.    *)
(* An ImageData is [width, height, data] with data the flat RGBA buffer,   *)
(* data[k + 1] being the code's data[k].                                   *)
(***************************************************************************)
EXTENDS Integers, Sequences, FiniteSets, TLC

VARIABLES
    particles,          \* argument of SimpleExporter.exportParticles
    exportResult,       \* what exportParticles produced (images and metadata)
    positionImageData,  \* ImageData of the position file given to the loader
    colorImageData,     \* ImageData of the colour file given to the loader
    metadata,           \* parsed metadata file given to the loader, or Null
    loadResult,         \* what TextureLoader.loadFromTextures produced
    particleData,       \* useParticleData: particleData
    isLoading,          \* useParticleData: isLoading
    error,              \* useParticleData: error
    loadingProgress,    \* useParticleData: loadingProgress
    pending,            \* the asynchronous handlers that are awaiting, as a set
    rawData,            \* the parsed JSON document given to parseParticleData
    cap,                \* maxParticles given to optimizeForRendering
    parseResult,        \* what HoudiniParser.parseParticleData produced
    optimizeResult,     \* what HoudiniParser.optimizeForRendering produced
    visualizationMode,  \* Scene: uiState.visualizationMode
    textureData,        \* Scene: textureData
    generateDeps,       \* the dependencies the texture generation effect last ran with
    resetDeps           \* the dependencies the reset effect last ran with

vars == <<particles, exportResult, positionImageData, colorImageData, metadata,
          loadResult, particleData, isLoading, error, loadingProgress, pending,
          rawData, cap, parseResult, optimizeResult,
          visualizationMode, textureData, generateDeps, resetDeps>>

\* null / undefined for an object-valued variable, and for the error string
Null == [null |-> TRUE]
NoError == "null"

-----------------------------------------------------------------------------
(* Bounds of the model *)

MaxParticles == 3   \* longest collection given to the codec
MaxCount == 20      \* longest of the longer collections
MaxPending == 2     \* most handlers awaiting at once
MaxPixels == 4      \* largest width * height of an image given to the loader
MaxRecords == 7     \* longest particle array of a JSON document given to the parser
RenderedPoints == 4 \* the hook's cap on a dataset it optimizes, standing for 50000

-----------------------------------------------------------------------------
(* Numbers of the program *)

\* The length above which loadFromJSON optimizes a dataset unasked, and the
\* cap it optimizes with
LargeDatasetLength == 100000
OptimizedLength == 50000

-----------------------------------------------------------------------------
(* Exact arithmetic on rationals *)

Abs(n) == IF n < 0 THEN -n ELSE n

RECURSIVE GCD(_, _)
GCD(a, b) == IF b = 0 THEN a ELSE GCD(b, a % b)

Rat(n, d) ==
    LET s == IF d < 0 THEN -1 ELSE 1
        g == GCD(Abs(n), Abs(d))
    IN  <<(s * n) \div g, (s * d) \div g>>

Num(n) == <<n, 1>>
RAdd(a, b) == Rat(a[1] * b[2] + b[1] * a[2], a[2] * b[2])
RNeg(a) == <<-a[1], a[2]>>
RSub(a, b) == RAdd(a, RNeg(b))
RMul(a, b) == Rat(a[1] * b[1], a[2] * b[2])
RDiv(a, b) == Rat(a[1] * b[2], a[2] * b[1])
RLe(a, b) == a[1] * b[2] <= b[1] * a[2]
RLt(a, b) == a[1] * b[2] < b[1] * a[2]
RAbs(a) == <<Abs(a[1]), a[2]>>
RFloor(a) == a[1] \div a[2]
\* Math.round: the nearest integer, a tie going up
MathRound(a) == RFloor(RAdd(a, <<1, 2>>))
\* x || 1 on a number: 0 is falsy
OrOne(a) == IF a[1] = 0 THEN Num(1) ELSE a

RECURSIVE Pow2(_)
Pow2(e) == IF e = 0 THEN 1 ELSE 2 * Pow2(e - 1)

\* Math.ceil(Math.sqrt(n)) for an integer n >= 0
CeilSqrt(n) == CHOOSE k \in 0..n : k * k >= n /\ (k = 0 \/ (k - 1) * (k - 1) < n)

\* Math.ceil(Math.log2(m)) for an integer m >= 1
CeilLog2(m) == CHOOSE e \in 0..m : Pow2(e) >= m /\ (e = 0 \/ Pow2(e - 1) < m)

\* A store into a Uint8ClampedArray of an integer value
ToUint8Clamped(n) == IF n < 0 THEN 0 ELSE IF n > 255 THEN 255 ELSE n

Axes == 1..3

-----------------------------------------------------------------------------
(* SimpleExporter *)

\* calculateBounds with min and max starting from 0 instead of +-Infinity
calculateBoundsFromZero(ps) ==
    LET vals(i) == {ps[k].position[i] : k \in 1..Len(ps)} \cup {Num(0)}
        lo(i) == CHOOSE m \in vals(i) : \A v \in vals(i) : RLe(m, v)
        hi(i) == CHOOSE m \in vals(i) : \A v \in vals(i) : RLe(v, m)
    IN  [min |-> [i \in Axes |-> lo(i)], max |-> [i \in Axes |-> hi(i)]]

\* SimpleExporter.calculateBounds
calculateBounds(ps) ==
    IF Len(ps) = 0
    THEN [min |-> <<Num(0), Num(0), Num(0)>>, max |-> <<Num(0), Num(0), Num(0)>>]
    ELSE LET vals(i) == {ps[k].position[i] : k \in 1..Len(ps)}
             lo(i) == CHOOSE m \in vals(i) : \A v \in vals(i) : RLe(m, v)
             hi(i) == CHOOSE m \in vals(i) : \A v \in vals(i) : RLe(v, m)
         IN  [min |-> [i \in Axes |-> lo(i)], max |-> [i \in Axes |-> hi(i)]]

\* The bounds the exporter normalises with: the Y axis flipped
invertedBounds(ob) ==
    [min |-> <<ob.min[1], RNeg(ob.max[2]), ob.min[3]>>,
     max |-> <<ob.max[1], RNeg(ob.min[2]), ob.max[3]>>]

\* rangeOf substituting 2 for a range of 0
rangeOfOrTwo(bounds) ==
    [i \in Axes |-> IF RSub(bounds.max[i], bounds.min[i]) = Num(0) THEN Num(2)
                    ELSE RSub(bounds.max[i], bounds.min[i])]

\* range[i] = bounds.max[i] - bounds.min[i] || 1
rangeOf(bounds) == [i \in Axes |-> OrOne(RSub(bounds.max[i], bounds.min[i]))]

\* The position the exporter quantises: Y negated
exportPosition(particle) ==
    <<particle.position[1], RNeg(particle.position[2]), particle.position[3]>>

\* Math.max(0, Math.min(255, Math.round(((v - min) / range) * 255)))
quantizePosition(v, min, range) ==
    LET normalizedPos == MathRound(RMul(RDiv(RSub(v, min), range), Num(255)))
    IN  IF normalizedPos > 255 THEN 255 ELSE IF normalizedPos < 0 THEN 0 ELSE normalizedPos

\* quantizeColor storing into a Uint8Array, which wraps modulo 256
quantizeColorWrapping(c) == MathRound(RMul(c, Num(255))) % 256

\* data[k] = Math.round(c * 255) on a Uint8ClampedArray
quantizeColor(c) == ToUint8Clamped(MathRound(RMul(c, Num(255))))

\* ctx.fillRect(0, 0, size, size) with fillStyle 'black': opaque black everywhere
fillRectBlack(size) == [k \in 1..(4 * size * size) |-> IF k % 4 = 0 THEN 255 ELSE 0]

\* ctx.createImageData(size, size): a fresh buffer of transparent black
createImageData(size) == [k \in 1..(4 * size * size) |-> 0]

\* ctx.putImageData(imageData, 0, 0) over the whole canvas: every canvas pixel
\* is replaced (no compositing); a fully transparent pixel is stored as zeros
putImageData(canvas, data) ==
    [k \in DOMAIN canvas |->
        LET a == data[4 * ((k - 1) \div 4) + 4]
        IN  IF a = 0 THEN 0 ELSE data[k]]

\* pixelIndexOf filling the image column by column
pixelIndexOfTransposed(i, finalSize) ==
    LET x == i \div finalSize
        y == i % finalSize
    IN  (y * finalSize + x) * 4

\* The pixel of the particle at index i: sequential, no shuffle
pixelIndexOf(i, finalSize) ==
    LET x == i % finalSize
        y == i \div finalSize
    IN  (y * finalSize + x) * 4

\* The pixel fill loop of exportParticles, from particle i (0-based) on;
\* img is <<posImageData.data, colorImageData.data>>
RECURSIVE fillPixels(_, _, _, _, _, _)
fillPixels(ps, bounds, range, finalSize, i, img) ==
    IF i >= Len(ps) THEN img
    ELSE LET particle == ps[i + 1]
             pixelIndex == pixelIndexOf(i, finalSize)
             ep == exportPosition(particle)
             pos == [img[1] EXCEPT
                        ![pixelIndex + 1] = quantizePosition(ep[1], bounds.min[1], range[1]),
                        ![pixelIndex + 2] = quantizePosition(ep[2], bounds.min[2], range[2]),
                        ![pixelIndex + 3] = quantizePosition(ep[3], bounds.min[3], range[3]),
                        ![pixelIndex + 4] = 255]
             col == [img[2] EXCEPT
                        ![pixelIndex + 1] = quantizeColor(particle.color[1]),
                        ![pixelIndex + 2] = quantizeColor(particle.color[2]),
                        ![pixelIndex + 3] = quantizeColor(particle.color[3]),
                        ![pixelIndex + 4] = 255]
         IN  fillPixels(ps, bounds, range, finalSize, i + 1, <<pos, col>>)

\* textureSizeFor without the rounding up to a power of two
textureSizeForNoPowerOfTwo(particleCount) == CeilSqrt(particleCount)

\* finalSize = Math.pow(2, Math.ceil(Math.log2(Math.ceil(Math.sqrt(n)))));
\* for n = 0 Math.log2(0) is -Infinity and the size is 0
textureSizeFor(particleCount) ==
    LET textureSize == CeilSqrt(particleCount)
    IN  IF textureSize = 0 THEN 0 ELSE Pow2(CeilLog2(textureSize))

\* SimpleExporter.exportParticles: the two PNG images (as the canvases hold
\* them when toBlob runs) and the metadata; the timestamp is left out.
\* createImageData(0, 0) throws, so an empty collection yields no result.
exportParticles(ps) ==
    LET particleCount == Len(ps)
        finalSize == textureSizeFor(particleCount)
        originalBounds == calculateBounds(ps)
        bounds == invertedBounds(originalBounds)
        range == rangeOf(bounds)
        img == fillPixels(ps, bounds, range, finalSize, 0,
                          <<createImageData(finalSize), createImageData(finalSize)>>)
        image(d) == [width |-> finalSize, height |-> finalSize,
                     data |-> putImageData(fillRectBlack(finalSize), d)]
    IN  IF finalSize = 0
        THEN [status |-> "error"]
        ELSE [status |-> "ok",
              positionImage |-> image(img[1]),
              colorImage |-> image(img[2]),
              metadata |-> [width |-> finalSize, height |-> finalSize,
                            particleCount |-> particleCount,
                            bounds |-> originalBounds]]

-----------------------------------------------------------------------------
(* TextureLoader *)

\* estimateBounds with a fallback box twice as wide
estimateBoundsWide ==
    [min |-> <<Num(-40), Num(-40), Num(-40)>>, max |-> <<Num(40), Num(40), Num(40)>>]

\* TextureLoader.estimateBounds
estimateBounds ==
    [min |-> <<Num(-20), Num(-20), Num(-20)>>, max |-> <<Num(20), Num(20), Num(20)>>]

\* TextureLoader.calculateActualBounds
calculateActualBounds(ps) ==
    IF Len(ps) = 0
    THEN [min |-> <<Num(0), Num(0), Num(0)>>, max |-> <<Num(0), Num(0), Num(0)>>]
    ELSE LET vals(i) == {ps[k].position[i] : k \in 1..Len(ps)}
             lo(i) == CHOOSE m \in vals(i) : \A v \in vals(i) : RLe(m, v)
             hi(i) == CHOOSE m \in vals(i) : \A v \in vals(i) : RLe(v, m)
         IN  [min |-> [i \in Axes |-> lo(i)], max |-> [i \in Axes |-> hi(i)]]

\* metadata?.bounds: undefined when there is no metadata or it has no bounds
metadataBounds(meta) ==
    IF meta # Null /\ meta.bounds # Null THEN meta.bounds ELSE Null

\* The array of all pixel positions, row by row
pixelPositionsOf(textureWidth, textureHeight) ==
    [k \in 1..(textureWidth * textureHeight) |->
        LET y == (k - 1) \div textureWidth
            x == (k - 1) % textureWidth
        IN  [x |-> x, y |-> y, pixelIndex |-> (y * textureWidth + x) * 4]]

\* j = Math.floor(((seed + i * 17) % 10000) / 10000 * (i + 1))
shuffleIndex(seed, i) == (((seed + i * 17) % 10000) * (i + 1)) \div 10000

\* shufflePixels storing [j] in [i] without storing [i] in [j]
RECURSIVE shufflePixelsOneWay(_, _, _)
shufflePixelsOneWay(pixelPositions, seed, i) ==
    IF i <= 0 THEN pixelPositions
    ELSE LET j == shuffleIndex(seed, i)
             copied == [pixelPositions EXCEPT ![i + 1] = pixelPositions[j + 1]]
         IN  shufflePixelsOneWay(copied, seed, i - 1)

\* The shuffle loop, from index i (0-based) down to 1: swap [i] and [j]
RECURSIVE shufflePixels(_, _, _)
shufflePixels(pixelPositions, seed, i) ==
    IF i <= 0 THEN pixelPositions
    ELSE LET j == shuffleIndex(seed, i)
             swapped == [pixelPositions EXCEPT ![i + 1] = pixelPositions[j + 1],
                                               ![j + 1] = pixelPositions[i + 1]]
         IN  shufflePixels(swapped, seed, i - 1)

\* The order in which loadFromTextures visits the pixels
visitingOrder(textureWidth, textureHeight) ==
    LET pixelPositions == pixelPositionsOf(textureWidth, textureHeight)
        seed == textureWidth * textureHeight * 1337
    IN  shufflePixels(pixelPositions, seed, Len(pixelPositions) - 1)

\* isBlackPixel looking at the position image only
isBlackPixelPositionOnly(posData, colData, pixelIndex) ==
    posData[pixelIndex + 1] = 0 /\ posData[pixelIndex + 2] = 0 /\ posData[pixelIndex + 3] = 0

\* isBlackPixel taking a slot for empty only if it is opaque black
isBlackPixelOpaque(posData, colData, pixelIndex) ==
    /\ posData[pixelIndex + 1] = 0 /\ posData[pixelIndex + 2] = 0 /\ posData[pixelIndex + 3] = 0
    /\ colData[pixelIndex + 1] = 0 /\ colData[pixelIndex + 2] = 0 /\ colData[pixelIndex + 3] = 0
    /\ posData[pixelIndex + 4] = 255 /\ colData[pixelIndex + 4] = 255

\* Skip black pixels: all three position bytes and all three colour bytes are 0
isBlackPixel(posData, colData, pixelIndex) ==
    /\ posData[pixelIndex + 1] = 0 /\ posData[pixelIndex + 2] = 0 /\ posData[pixelIndex + 3] = 0
    /\ colData[pixelIndex + 1] = 0 /\ colData[pixelIndex + 2] = 0 /\ colData[pixelIndex + 3] = 0

\* Denormalise one pixel and un-invert Y
worldPositionOf(posData, pixelIndex, bounds, range) ==
    LET normalizedPos == [i \in Axes |-> Rat(posData[pixelIndex + i], 255)]
        invertedPosition == [i \in Axes |-> RAdd(RMul(normalizedPos[i], range[i]), bounds.min[i])]
    IN  <<invertedPosition[1], RNeg(invertedPosition[2]), invertedPosition[3]>>

\* colorOf reading the channels in the order B, G, R
colorOfSwapped(colData, pixelIndex) == [i \in Axes |-> Rat(colData[pixelIndex + 4 - i], 255)]

\* Read the colour of one pixel
colorOf(colData, pixelIndex) == [i \in Axes |-> Rat(colData[pixelIndex + i], 255)]

\* emitParticles numbering the ids by the pixel read instead of by emission
RECURSIVE emitParticlesPixelIds(_, _, _, _, _, _, _)
emitParticlesPixelIds(order, k, posData, colData, bounds, range, out) ==
    IF k > Len(order) THEN out
    ELSE LET pixelIndex == order[k].pixelIndex
         IN  IF isBlackPixel(posData, colData, pixelIndex)
             THEN emitParticlesPixelIds(order, k + 1, posData, colData, bounds, range, out)
             ELSE emitParticlesPixelIds(order, k + 1, posData, colData, bounds, range,
                     Append(out,
                        [pixelIndex |-> pixelIndex,
                         particle |-> [id |-> <<"texture_particle", pixelIndex \div 4>>,
                                       position |-> worldPositionOf(posData, pixelIndex, bounds, range),
                                       color |-> colorOf(colData, pixelIndex),
                                       size |-> Num(1)]]))

\* The emission loop over the visiting order, from its k-th entry on; out is the
\* sequence of emitted particles, each paired with the pixel it was read from
RECURSIVE emitParticles(_, _, _, _, _, _, _)
emitParticles(order, k, posData, colData, bounds, range, out) ==
    IF k > Len(order) THEN out
    ELSE LET pixelIndex == order[k].pixelIndex
         IN  IF isBlackPixel(posData, colData, pixelIndex)
             THEN emitParticles(order, k + 1, posData, colData, bounds, range, out)
             ELSE emitParticles(order, k + 1, posData, colData, bounds, range,
                     Append(out,
                        [pixelIndex |-> pixelIndex,
                         particle |-> [id |-> <<"texture_particle", Len(out)>>,
                                       position |-> worldPositionOf(posData, pixelIndex, bounds, range),
                                       color |-> colorOf(colData, pixelIndex),
                                       size |-> Num(1)]]))

DimensionError == "Position and color textures must have the same dimensions"
ImageError == "Failed to load image"

\* A file that the browser cannot decode as an image: loadImageData rejects
BadImage == [bad |-> TRUE]

\* dimensionsMatch comparing the buffer lengths instead of width and height
dimensionsMatchByLength(posImage, colImage) == Len(posImage.data) = Len(colImage.data)

\* The test "Verify dimensions match" (the code throws when it fails)
dimensionsMatch(posImage, colImage) ==
    posImage.width = colImage.width /\ posImage.height = colImage.height

\* TextureLoader.loadFromTextures on the two decoded images and the parsed
\* metadata (Null: no metadata file). pixels records, for each emitted
\* particle, the pixelIndex it was read from; the timestamp is left out.
loadFromTextures(posImage, colImage, meta) ==
    IF posImage = BadImage \/ colImage = BadImage
    THEN [status |-> "error", message |-> ImageError]
    ELSE IF ~dimensionsMatch(posImage, colImage)
    THEN [status |-> "error", message |-> DimensionError]
    ELSE LET textureWidth == posImage.width
             textureHeight == posImage.height
             bounds == IF metadataBounds(meta) # Null THEN metadataBounds(meta)
                       ELSE estimateBounds
             range == rangeOf(bounds)
             order == visitingOrder(textureWidth, textureHeight)
             out == emitParticles(order, 1, posImage.data, colImage.data, bounds, range, <<>>)
             ps == [n \in 1..Len(out) |-> out[n].particle]
         IN  [status |-> "ok",
              pixels |-> [n \in 1..Len(out) |-> out[n].pixelIndex],
              data |-> [particles |-> ps,
                        metadata |-> [count |-> Len(ps),
                                      source |-> "texture_files",
                                      bounds |-> IF metadataBounds(meta) # Null
                                                 THEN metadataBounds(meta)
                                                 ELSE calculateActualBounds(ps)]]]

-----------------------------------------------------------------------------
(* JSON documents: what JSON.parse and response.json() return. Every value   *)
(* carries its JavaScript type; a string is kept as the tuple of its parts.  *)

JNull == [type |-> "null"]
JUndefined == [type |-> "undefined"]
JNum(r) == [type |-> "number", value |-> r]
JStr(str) == [type |-> "string", value |-> str]
JBool(b) == [type |-> "boolean", value |-> b]
JArr(items) == [type |-> "array", items |-> items]
JObj(fields) == [type |-> "object", fields |-> fields]

\* typeof x === 'object'
typeofObject(x) == x.type \in {"null", "array", "object"}

\* Array.isArray(x)
isArray(x) == x.type = "array"

\* The right operand of `in` must be an object: null and primitives throw
inThrows(x) == x.type \notin {"array", "object"}

\* key in x, for x an object or an array and key a property name of the data
In(key, x) == x.type = "object" /\ key \in DOMAIN x.fields

\* x.key on anything but null and undefined (a missing property is undefined)
get(x, key) == IF In(key, x) THEN x.fields[key] ELSE JUndefined

\* x.key throws on null and undefined
getThrows(x) == x.type \in {"null", "undefined"}

\* x || y on JSON values: null, undefined, 0, '' and false are falsy
falsy(x) ==
    \/ x.type \in {"null", "undefined"}
    \/ x.type = "number" /\ x.value[1] = 0
    \/ x.type = "string" /\ x.value = ""
    \/ x.type = "boolean" /\ ~x.value

-----------------------------------------------------------------------------
(* HoudiniParser *)

TypeError == "TypeError"
UnknownFormatError == "Unknown particle data format. Expected Houdini format [{\"P\":[x,y,z],\"Cd\":[r,g,b]}] or internal format {\"particles\":[...]}"

\* new Date().toISOString()
Now == "now"

\* HoudiniParser.isHoudiniFormat: "true", "false", or the TypeError that
\* 'P' in data[0] throws when data[0] is null
isHoudiniFormat(data) ==
    IF ~isArray(data) THEN "false"
    ELSE IF ~(Len(data.items) > 0) THEN "false"
    ELSE LET first == data.items[1]
         IN  IF ~typeofObject(first) THEN "false"
             ELSE IF inThrows(first) THEN TypeError
             ELSE IF In("P", first) /\ In("Cd", first)
                     /\ isArray(get(first, "P")) /\ isArray(get(first, "Cd"))
                     /\ Len(get(first, "P").items) = 3
                     /\ Len(get(first, "Cd").items) = 3
                  THEN "true" ELSE "false"

\* HoudiniParser.isInternalFormat: "true", "false", or the TypeError that `in`
\* throws when data is null or particles[0] is null or a primitive
isInternalFormat(data) ==
    IF ~typeofObject(data) THEN "false"
    ELSE IF inThrows(data) THEN TypeError
    ELSE IF ~In("particles", data) THEN "false"
    ELSE LET ps == get(data, "particles")
         IN  IF ~isArray(ps) THEN "false"
             ELSE IF ~(Len(ps.items) > 0) THEN "false"
             ELSE IF inThrows(ps.items[1]) THEN TypeError
             ELSE IF In("position", ps.items[1]) /\ In("color", ps.items[1])
                  THEN "true" ELSE "false"

\* convertFromHoudini giving the ids of the internal format, particle_<index>
convertFromHoudiniPlainIds(houdiniData) ==
    IF \E k \in 1..Len(houdiniData.items) : getThrows(houdiniData.items[k])
    THEN [status |-> "error", message |-> TypeError]
    ELSE LET ps == [k \in 1..Len(houdiniData.items) |->
                       JObj([id |-> JStr(<<"particle", k - 1>>),
                             position |-> get(houdiniData.items[k], "P"),
                             color |-> get(houdiniData.items[k], "Cd"),
                             size |-> JNum(Num(1))])]
         IN  [status |-> "ok",
              data |-> JObj([particles |-> JArr(ps),
                             metadata |-> JObj([count |-> JNum(Num(Len(ps))),
                                                created |-> JStr(Now),
                                                source |-> JStr("houdini")])])]

\* HoudiniParser.convertFromHoudini; houdiniParticle.P throws on a null element
convertFromHoudini(houdiniData) ==
    IF \E k \in 1..Len(houdiniData.items) : getThrows(houdiniData.items[k])
    THEN [status |-> "error", message |-> TypeError]
    ELSE LET ps == [k \in 1..Len(houdiniData.items) |->
                       JObj([id |-> JStr(<<"houdini_particle", k - 1>>),
                             position |-> get(houdiniData.items[k], "P"),
                             color |-> get(houdiniData.items[k], "Cd"),
                             size |-> JNum(Num(1))])]
         IN  [status |-> "ok",
              data |-> JObj([particles |-> JArr(ps),
                             metadata |-> JObj([count |-> JNum(Num(Len(ps))),
                                                created |-> JStr(Now),
                                                source |-> JStr("houdini")])])]

\* HoudiniParser.parseParticleData: the ParticleData returned (format records
\* the branch taken) or the message of the error thrown
parseParticleData(data) ==
    LET houdini == isHoudiniFormat(data)
        internal == isInternalFormat(data)
    IN  IF houdini = TypeError THEN [status |-> "error", message |-> TypeError]
        ELSE IF houdini = "true"
        THEN LET converted == convertFromHoudini(data)
             IN  IF converted.status = "ok"
                 THEN [status |-> "ok", format |-> "houdini", data |-> converted.data]
                 ELSE converted
        ELSE IF internal = TypeError THEN [status |-> "error", message |-> TypeError]
        ELSE IF internal = "true"
        THEN [status |-> "ok", format |-> "internal", data |-> data]
        ELSE [status |-> "error", message |-> UnknownFormatError]

\* Not a number: what Math.min and Math.max give once an operand is undefined
JNaN == [type |-> "NaN"]

\* particle.position[i] throws when the particle or its position is null or
\* undefined
positionThrows(particle) == getThrows(particle) \/ getThrows(get(particle, "position"))

\* particle.position[i] (i = 1..3 for the code's 0..2); the items of a
\* position array are numbers, an item that is not there is undefined
positionAt(particle, i) ==
    LET position == get(particle, "position")
    IN  IF isArray(position) /\ Len(position.items) >= i
        THEN position.items[i] ELSE JUndefined

\* HoudiniParser.calculateBounds on the items of a particles array
HoudiniParser_calculateBounds(ps) ==
    IF Len(ps) = 0
    THEN [status |-> "ok",
          bounds |-> JObj([min |-> JArr(<<JNum(Num(0)), JNum(Num(0)), JNum(Num(0))>>),
                           max |-> JArr(<<JNum(Num(0)), JNum(Num(0)), JNum(Num(0))>>)])]
    ELSE IF \E k \in 1..Len(ps) : positionThrows(ps[k])
    THEN [status |-> "error", message |-> TypeError]
    ELSE LET numeric(i) == \A k \in 1..Len(ps) : positionAt(ps[k], i).type = "number"
             vals(i) == {positionAt(ps[k], i).value : k \in 1..Len(ps)}
             lo(i) == IF numeric(i)
                      THEN JNum(CHOOSE m \in vals(i) : \A v \in vals(i) : RLe(m, v))
                      ELSE JNaN
             hi(i) == IF numeric(i)
                      THEN JNum(CHOOSE m \in vals(i) : \A v \in vals(i) : RLe(v, m))
                      ELSE JNaN
         IN  [status |-> "ok",
              bounds |-> JObj([min |-> JArr([i \in Axes |-> lo(i)]),
                               max |-> JArr([i \in Axes |-> hi(i)])])]

\* strideOf rounding length / maxParticles down instead of up
strideOfFloor(length, maxParticles) ==
    IF length \div maxParticles = 0 THEN 1 ELSE length \div maxParticles

\* step = Math.ceil(particles.length / maxParticles), for maxParticles >= 1
strideOf(length, maxParticles) == (length + maxParticles - 1) \div maxParticles

\* retainedIndices keeping the indices 1, 1 + step, ... instead
retainedIndicesFromOne(length, step) ==
    SelectSeq([n \in 1..length |-> n - 1], LAMBDA index : index % step = 1 % step)

\* The indices that particles.filter((_, index) => index % step === 0) keeps
\* of an array of the given length, in the order it keeps them
retainedIndices(length, step) ==
    SelectSeq([n \in 1..length |-> n - 1], LAMBDA index : index % step = 0)

\* optimizeForRendering returning the points and the metadata of the input,
\* with optimized set to false
optimizeForRenderingKeepMetadata(data, maxParticles) ==
    LET meta == get(data, "metadata")
        keys == IF meta.type = "object" THEN DOMAIN meta.fields ELSE {}
    IN  [status |-> "ok",
         data |-> JObj([particles |-> get(data, "particles"),
                        metadata |-> JObj([key \in keys \cup {"optimized"} |->
                                              IF key = "optimized" THEN JBool(FALSE)
                                              ELSE meta.fields[key]])])]

\* optimizeForRendering taking the bounds of the collection it was given
optimizeForRenderingBoundsOfAll(data, maxParticles) ==
    LET all == get(data, "particles").items
        subsample == ~falsy(maxParticles) /\ Len(all) > maxParticles.value[1]
        step == strideOf(Len(all), maxParticles.value[1])
        kept == retainedIndices(Len(all), step)
        filtered == IF subsample THEN [n \in 1..Len(kept) |-> all[kept[n] + 1]] ELSE all
        bounds == HoudiniParser_calculateBounds(all)
        meta == get(data, "metadata")
        created == IF getThrows(meta) \/ falsy(get(meta, "created"))
                   THEN JStr(Now) ELSE get(meta, "created")
        source == IF getThrows(meta) THEN JUndefined ELSE get(meta, "source")
    IN  IF bounds.status = "error" THEN bounds
        ELSE [status |-> "ok",
              data |-> JObj([particles |-> JArr(filtered),
                             metadata |-> JObj([count |-> JNum(Num(Len(filtered))),
                                                created |-> created,
                                                source |-> source,
                                                bounds |-> bounds.bounds,
                                                optimized |-> JBool(Len(filtered) < Len(all))])])]

\* HoudiniParser.optimizeForRendering(data, maxParticles); maxParticles is
\* undefined when the argument is left out, else an integer >= 0 (0 is falsy)
optimizeForRendering(data, maxParticles) ==
    LET all == get(data, "particles").items
        subsample == ~falsy(maxParticles) /\ Len(all) > maxParticles.value[1]
        step == strideOf(Len(all), maxParticles.value[1])
        kept == retainedIndices(Len(all), step)
        filtered == IF subsample THEN [n \in 1..Len(kept) |-> all[kept[n] + 1]] ELSE all
        bounds == HoudiniParser_calculateBounds(filtered)
        meta == get(data, "metadata")
        created == IF getThrows(meta) \/ falsy(get(meta, "created"))
                   THEN JStr(Now) ELSE get(meta, "created")
        source == IF getThrows(meta) THEN JUndefined ELSE get(meta, "source")
    IN  IF bounds.status = "error" THEN bounds
        ELSE [status |-> "ok",
              data |-> JObj([particles |-> JArr(filtered),
                             metadata |-> JObj([count |-> JNum(Num(Len(filtered))),
                                                created |-> created,
                                                source |-> source,
                                                bounds |-> bounds.bounds,
                                                optimized |-> JBool(Len(filtered) < Len(all))])])]

-----------------------------------------------------------------------------
(* Inputs *)

TestPositions ==
    { <<Num(0), Num(0), Num(0)>>,
      <<Num(1), Num(-2), Rat(1, 3)>>,
      <<Rat(-5, 2), Num(2), Num(-3)>> }

TestColors ==
    { <<Num(0), Num(0), Num(0)>>,
      <<Num(1), Rat(1, 2), Num(0)>>,
      <<Rat(3, 10), Rat(1, 510), Num(1)>>,
      <<Rat(3, 2), Rat(-1, 2), Rat(1, 2)>> }

\* A collection: particles with the given positions and colours, ids by index
mkParticles(pts) ==
    [k \in 1..Len(pts) |->
        [id |-> <<"particle", k - 1>>, position |-> pts[k][1], color |-> pts[k][2],
         size |-> Num(1)]]

SeqsUpTo(S, n) == UNION {[1..m -> S] : m \in 0..n}

ShortCollections ==
    {mkParticles(pts) : pts \in SeqsUpTo(TestPositions \X TestColors, MaxParticles)}

\* One longer collection for each length up to MaxCount
LongCollections ==
    {mkParticles([k \in 1..n |-> << <<Num(k), Num(k % 3), Num(-k)>>,
                                   <<Num(1), Rat(1, 2), Num(0)>> >>]) :
        n \in (MaxParticles + 1)..MaxCount}

\* Two collections that are flat: one on the Y axis, one on the X and Z axes
FlatCollections ==
    {mkParticles(<< << <<Num(1), Num(2), Num(-3)>>, <<Num(1), Rat(1, 2), Num(0)>> >>,
                    << <<Rat(-5, 2), Num(2), Num(0)>>, <<Num(0), Num(0), Num(0)>> >> >>),
     mkParticles(<< << <<Num(1), Num(-2), Rat(1, 3)>>, <<Num(0), Num(0), Num(0)>> >>,
                    << <<Num(1), Num(2), Rat(1, 3)>>, <<Num(1), Rat(1, 2), Num(0)>> >> >>)}

InputCollections == ShortCollections \cup LongCollections \cup FlatCollections

\* Pixels as getImageData returns them, a position pixel paired with the colour
\* pixel at the same place; a fully transparent pixel reads back as zeros
TestPixelPairs ==
    { << <<0, 0, 0, 0>>,       <<0, 0, 0, 0>> >>,
      << <<0, 0, 0, 255>>,     <<0, 0, 0, 255>> >>,
      << <<0, 0, 0, 255>>,     <<0, 0, 3, 128>> >>,
      << <<128, 0, 255, 255>>, <<0, 0, 0, 0>> >> }

Dims == {<<w, h>> : w \in 1..MaxPixels, h \in 1..MaxPixels}

\* The ImageData of d[1] x d[2] pixels whose k-th pixel is px[k]
mkImage(d, px) ==
    [width |-> d[1], height |-> d[2],
     data |-> [k \in 1..(4 * d[1] * d[2]) |-> px[((k - 1) \div 4) + 1][((k - 1) % 4) + 1]]]

TestBounds ==
    [min |-> <<Num(-1), Num(-1), Num(0)>>, max |-> <<Num(1), Num(3), Num(0)>>]

TestMetadata ==
    { Null,
      [width |-> 2, height |-> 2, particleCount |-> 2, bounds |-> TestBounds],
      [width |-> 1, height |-> 1, particleCount |-> 1, bounds |-> Null] }

\* One record of a Houdini file (README: "P" and "Cd"), the k-th of its array
HoudiniRecord(k) ==
    JObj([P |-> JArr(<<JNum(Rat(1367 * k, 1000)), JNum(Num(k % 3)), JNum(Num(-k))>>),
          Cd |-> JArr(<<JNum(Rat(83, 1000)), JNum(Rat(k, 8)), JNum(Rat(1, 8))>>)])

\* Houdini files of 1 .. MaxRecords records
HoudiniDocuments == {JArr([k \in 1..n |-> HoudiniRecord(k)]) : n \in 1..MaxRecords}

\* One particle of a file in the internal format (README: "Formato Interno")
InternalParticle(k) ==
    JObj([id |-> JStr(<<"particle", k - 1>>),
          position |-> JArr(<<JNum(Num(k - 1)), JNum(Rat(-k, 2)), JNum(Num(0))>>),
          color |-> JArr(<<JNum(Num(1)), JNum(Rat(1, 2)), JNum(Rat(1, 5))>>),
          size |-> JNum(Num(1))])

\* The metadata blocks of the internal files: the README's, whose bounds are
\* wider than the points, and one with a stale count and a source
InternalMetadata ==
    { JObj([count |-> JNum(Num(1000)),
            bounds |-> JObj([min |-> JArr(<<JNum(Num(-10)), JNum(Num(-10)), JNum(Num(-10))>>),
                             max |-> JArr(<<JNum(Num(10)), JNum(Num(10)), JNum(Num(10))>>)]),
            created |-> JStr("2024-01-01T00:00:00Z")]),
      JObj([count |-> JNum(Num(0)), source |-> JStr("custom")]) }

\* Internal files of 1 .. MaxRecords particles, without and with metadata
InternalDocuments ==
    {JObj([particles |-> JArr([k \in 1..n |-> InternalParticle(k)])]) : n \in 1..MaxRecords}
    \cup {JObj([particles |-> JArr([k \in 1..n |-> InternalParticle(k)]), metadata |-> m]) :
            n \in 1..MaxRecords, m \in InternalMetadata}

\* An internal particle without one of its fields
Without(particle, key) ==
    JObj([f \in DOMAIN particle.fields \ {key} |-> particle.fields[f]])

\* Internal files whose elements lack a field, or are no objects
PartialDocuments ==
    { JObj([particles |-> JArr(<<Without(InternalParticle(1), "id"), InternalParticle(2)>>)]),
      JObj([particles |-> JArr(<<Without(InternalParticle(1), "position")>>)]),
      JObj([particles |-> JArr(<<Without(InternalParticle(1), "color"), InternalParticle(2)>>)]),
      JObj([particles |-> JArr(<<Without(InternalParticle(1), "size")>>)]),
      JObj([particles |-> JArr(<<InternalParticle(1), Without(InternalParticle(2), "position")>>)]),
      JObj([particles |-> JArr(<<InternalParticle(1), Without(InternalParticle(2), "id")>>)]),
      JObj([particles |-> JArr(<<InternalParticle(1), JNull>>)]),
      JObj([particles |-> JArr(<<JNull>>)]),
      JObj([particles |-> JArr(<<JNum(Num(5))>>)]),
      JObj([particles |-> JArr(<<>>)]),
      JObj([particles |-> JNum(Num(5))]),
      JObj([points |-> JArr(<<InternalParticle(1)>>)]) }

\* Documents that are no object, and arrays whose elements are no Houdini
\* records
OtherDocuments ==
    { JNull, JNum(Num(5)), JStr("text"), JBool(TRUE),
      JArr(<<>>), JArr(<<JNull>>), JArr(<<JNum(Num(5))>>),
      JArr(<<JObj([P |-> JArr(<<JNum(Num(1)), JNum(Num(2))>>),
                   Cd |-> JArr(<<JNum(Num(1)), JNum(Num(0)), JNum(Num(0))>>)])>>),
      JArr(<<JObj([P |-> JArr(<<JNum(Num(1)), JNum(Num(2)), JNum(Num(3))>>)])>>),
      JArr(<<JObj([P |-> JNum(Num(1)), Cd |-> JNum(Num(0))])>>),
      JArr(<<HoudiniRecord(1), JNull>>),
      JArr(<<HoudiniRecord(1), JNum(Num(7))>>),
      JArr(<<InternalParticle(1)>>) }

Documents == HoudiniDocuments \cup InternalDocuments \cup PartialDocuments \cup OtherDocuments

\* The caps given to optimizeForRendering: none, or 0 .. MaxRecords + 1
Caps == {JUndefined} \cup {JNum(Num(m)) : m \in 0..(MaxRecords + 1)}

-----------------------------------------------------------------------------
(* The codec applied to a collection: export, then load what was exported *)

HookInit ==
    /\ particleData = Null
    /\ isLoading = FALSE
    /\ error = NoError
    /\ loadingProgress = ""
    /\ pending = {}

hookVars == <<particleData, isLoading, error, loadingProgress, pending>>

codecVars == <<particles, exportResult, positionImageData, colorImageData, metadata, loadResult>>

parserVars == <<rawData, cap, parseResult, optimizeResult>>

sceneVars == <<visualizationMode, textureData, generateDeps, resetDeps>>

\* Scene as it is mounted: Direct mode, no textures, no effect has run
SceneInit ==
    /\ visualizationMode = "json"
    /\ textureData = Null
    /\ generateDeps = Null
    /\ resetDeps = Null

\* The parser has not been given anything
ParserIdle ==
    /\ rawData = Null
    /\ cap = JUndefined
    /\ parseResult = Null
    /\ optimizeResult = Null

\* Neither has the codec
CodecIdle ==
    /\ particles = <<>>
    /\ exportResult = Null
    /\ positionImageData = Null
    /\ colorImageData = Null
    /\ metadata = Null
    /\ loadResult = Null

\* A collection to export
InitEncode ==
    /\ particles \in InputCollections
    /\ exportResult = Null
    /\ positionImageData = Null
    /\ colorImageData = Null
    /\ metadata = Null
    /\ loadResult = Null
    /\ HookInit
    /\ ParserIdle
    /\ SceneInit

\* Any two images and a metadata file to load
InitDecode ==
    /\ particles = <<>>
    /\ exportResult = Null
    /\ \E dp \in Dims, dc \in Dims :
        /\ dp[1] * dp[2] <= MaxPixels
        /\ dc[1] * dc[2] <= MaxPixels
        /\ \E px \in [1..MaxPixels -> TestPixelPairs] :
            /\ positionImageData = mkImage(dp, [k \in 1..MaxPixels |-> px[k][1]])
            /\ colorImageData = mkImage(dc, [k \in 1..MaxPixels |-> px[k][2]])
    /\ metadata \in TestMetadata
    /\ loadResult = Null
    /\ HookInit
    /\ ParserIdle
    /\ SceneInit

InitCodec == InitEncode \/ InitDecode

\* SimpleExporter.exportParticles(particles)
ExportParticles ==
    /\ positionImageData = Null
    /\ exportResult = Null
    /\ exportResult' = exportParticles(particles)
    /\ UNCHANGED <<particles, positionImageData, colorImageData, metadata, loadResult>>
    /\ UNCHANGED <<hookVars, parserVars, sceneVars>>

\* TextureLoader.loadFromTextures on the exported pair, with the exported
\* metadata file or without a metadata file
LoadExported ==
    /\ exportResult # Null
    /\ exportResult.status = "ok"
    /\ loadResult = Null
    /\ \E meta \in {exportResult.metadata, Null} :
        /\ positionImageData' = exportResult.positionImage
        /\ colorImageData' = exportResult.colorImage
        /\ metadata' = meta
        /\ loadResult' = loadFromTextures(exportResult.positionImage,
                                          exportResult.colorImage, meta)
    /\ UNCHANGED <<particles, exportResult>>
    /\ UNCHANGED <<hookVars, parserVars, sceneVars>>

\* TextureLoader.loadFromTextures(positionFile, colorFile, metadataFile)
LoadFromTextures ==
    /\ positionImageData # Null
    /\ loadResult = Null
    /\ loadResult' = loadFromTextures(positionImageData, colorImageData, metadata)
    /\ UNCHANGED <<particles, exportResult, positionImageData, colorImageData, metadata>>
    /\ UNCHANGED <<hookVars, parserVars, sceneVars>>

NextCodec == ExportParticles \/ LoadExported \/ LoadFromTextures

SpecCodec == InitCodec /\ [][NextCodec]_vars

-----------------------------------------------------------------------------
(* The parser applied to a document: parse, then optimize what was parsed *)

\* A document to parse and a cap to optimize with
InitParser ==
    /\ CodecIdle
    /\ HookInit
    /\ SceneInit
    /\ rawData \in Documents
    /\ cap \in Caps
    /\ parseResult = Null
    /\ optimizeResult = Null

\* HoudiniParser.parseParticleData(rawData)
ParseParticleData ==
    /\ rawData # Null
    /\ parseResult = Null
    /\ parseResult' = parseParticleData(rawData)
    /\ UNCHANGED <<rawData, cap, optimizeResult>>
    /\ UNCHANGED <<codecVars, hookVars, sceneVars>>

\* HoudiniParser.optimizeForRendering(data, cap) on the parsed data
OptimizeForRendering ==
    /\ parseResult # Null
    /\ parseResult.status = "ok"
    /\ optimizeResult = Null
    /\ optimizeResult' = optimizeForRendering(parseResult.data, cap)
    /\ UNCHANGED <<rawData, cap, parseResult>>
    /\ UNCHANGED <<codecVars, hookVars, sceneVars>>

NextParser == ParseParticleData \/ OptimizeForRendering

SpecParser == InitParser /\ [][NextParser]_vars

-----------------------------------------------------------------------------
(* useParticleData *)

TooFewFilesError == "Please select at least 2 files: position texture + color texture. Include metadata JSON for correct scaling!"
UnidentifiedFilesError == "Could not identify position and color files. Make sure filenames contain \"position\" and \"color\""

\* ParticleData values handed to setTestData: the five test particles of
\* handleTestSimpleData, and a single particle
TestData ==
    LET simple == << << <<Num(0), Num(0), Num(0)>>,   <<Num(1), Num(0), Num(0)>> >>,
                     << <<Num(2), Num(2), Num(0)>>,   <<Num(0), Num(1), Num(0)>> >>,
                     << <<Num(-2), Num(-2), Num(0)>>, <<Num(0), Num(0), Num(1)>> >>,
                     << <<Num(5), Num(0), Num(5)>>,   <<Num(1), Num(1), Num(0)>> >>,
                     << <<Num(-5), Num(0), Num(-5)>>, <<Num(1), Num(0), Num(1)>> >> >>
        single == << << <<Num(1), Num(-2), Num(0)>>, <<Num(1), Rat(1, 2), Num(0)>> >> >>
    IN  { [particles |-> mkParticles(pts),
           metadata |-> [count |-> Len(pts), source |-> "test"]] :
          pts \in {simple, single} }

\* The texture files on the user's disk: the exports of the test data, a
\* 1 x 2 position image and a 2 x 1 colour image from elsewhere, and a file
\* that is no image
ExportedFiles == {exportParticles(d.particles) : d \in TestData}
TallImage == mkImage(<<1, 2>>, << <<255, 64, 1, 255>>, <<0, 0, 0, 0>> >>)
WideImage == mkImage(<<2, 1>>, << <<0, 0, 3, 128>>, <<255, 255, 255, 255>> >>)
PositionFiles == {e.positionImage : e \in ExportedFiles} \cup {TallImage, BadImage}
ColorFiles == {e.colorImage : e \in ExportedFiles} \cup {WideImage, BadImage}
MetadataFiles == {e.metadata : e \in {x \in ExportedFiles : x.metadata.particleCount > 1}}

Count(file) == IF file = Null THEN 0 ELSE 1

\* setTestData(data)
setTestData ==
    /\ \E data \in TestData : particleData' = data
    /\ error' = NoError
    /\ loadingProgress' = ""
    /\ isLoading' = FALSE
    /\ UNCHANGED pending
    /\ UNCHANGED <<codecVars, parserVars, sceneVars>>

\* clearData()
clearData ==
    /\ particleData' = Null
    /\ error' = NoError
    /\ loadingProgress' = ""
    /\ isLoading' = FALSE
    /\ UNCHANGED pending
    /\ UNCHANGED <<codecVars, parserVars, sceneVars>>

\* resetLoadingState()
resetLoadingState ==
    /\ isLoading' = FALSE
    /\ error' = NoError
    /\ loadingProgress' = ""
    /\ UNCHANGED <<particleData, pending>>
    /\ UNCHANGED <<codecVars, parserVars, sceneVars>>

\* loadFromTextures(): the file input is clicked and the user selects files;
\* input.onchange runs up to its await of TextureLoader.loadFromTextures
loadFromTexturesSelect ==
    /\ Cardinality(pending) < MaxPending
    /\ \E positionFile \in PositionFiles \cup {Null},
          colorFile \in ColorFiles \cup {Null},
          metadataFile \in MetadataFiles \cup {Null},
          others \in 0..1 :
        IF Count(positionFile) + Count(colorFile) + Count(metadataFile) + others < 2
        THEN /\ error' = TooFewFilesError
             /\ isLoading' = FALSE
             /\ UNCHANGED pending
        ELSE IF positionFile = Null \/ colorFile = Null
        THEN /\ error' = UnidentifiedFilesError
             /\ isLoading' = FALSE
             /\ UNCHANGED pending
        ELSE /\ pending' = pending \cup {[op |-> "loadFromTextures",
                                          positionFile |-> positionFile,
                                          colorFile |-> colorFile,
                                          metadataFile |-> metadataFile]}
             /\ UNCHANGED <<error, isLoading>>
    /\ UNCHANGED <<particleData, loadingProgress>>
    /\ UNCHANGED <<codecVars, parserVars, sceneVars>>

\* input.onchange resumes: TextureLoader.loadFromTextures settles, and onLoad
\* or (from the catch) onError runs
loadFromTexturesSettle ==
    /\ \E h \in pending :
        /\ h.op = "loadFromTextures"
        /\ pending' = pending \ {h}
        /\ LET result == loadFromTextures(h.positionFile, h.colorFile, h.metadataFile)
           IN  IF result.status = "ok"
               THEN /\ particleData' = result.data
                    /\ error' = NoError
                    /\ isLoading' = FALSE
               ELSE /\ error' = result.message
                    /\ isLoading' = FALSE
                    /\ UNCHANGED particleData
    /\ UNCHANGED loadingProgress
    /\ UNCHANGED <<codecVars, parserVars, sceneVars>>

Init ==
    /\ CodecIdle
    /\ ParserIdle
    /\ HookInit
    /\ SceneInit

Next ==
    \/ setTestData
    \/ clearData
    \/ resetLoadingState
    \/ loadFromTexturesSelect
    \/ loadFromTexturesSettle

Spec == Init /\ [][Next]_vars

-----------------------------------------------------------------------------
(* useParticleData: loading JSON, generating and exporting.                  *)
(* The datasets of the model are small, so the two lengths the hook compares *)
(* with are scaled down: RenderedPoints stands for OptimizedLength and       *)
(* LargeDatasetPoints for LargeDatasetLength, in the same ratio.             *)

\* data.particles.length > 100000, scaled
LargeDatasetPoints == RenderedPoints * (LargeDatasetLength \div OptimizedLength)

\* optimizeForRendering(data, 50000), scaled
RenderedCap == JNum(Num(RenderedPoints))

FetchError == "Failed to load JSON: Not Found"
NoDataError == "No particle data to export"

\* `Failed to parse JSON: ${error}` of streamParseJSON
StreamError(message) ==
    IF message = UnknownFormatError
    THEN "Failed to parse JSON: Error: Unknown particle data format. Expected Houdini format [{\"P\":[x,y,z],\"Cd\":[r,g,b]}] or internal format {\"particles\":[...]}"
    ELSE "Failed to parse JSON: TypeError"

\* A Houdini file of n records
HoudiniFile(n) == JArr([k \in 1..n |-> HoudiniRecord(k)])

\* The JSON documents that a URL serves and that the files of the user hold:
\* a small and a large Houdini file, an object that is no particle data, null
ServedFiles ==
    { HoudiniFile(2),
      HoudiniFile(LargeDatasetPoints + 1),
      JObj([points |-> JArr(<<InternalParticle(1)>>)]),
      JNull }

\* particleData.particles.length, 0 when there is no particle data; a
\* ParticleData is held as it was produced, as a JSON object or as a record
particleCountOf(data) ==
    IF data = Null THEN 0
    ELSE IF "type" \in DOMAIN data THEN Len(get(data, "particles").items)
    ELSE Len(data.particles)

\* What a load handler does once JSON.parse has given it the document:
\* parseParticleData (large: inside streamParseJSON, which wraps what is
\* thrown), then optimizeForRendering with the hook's cap when optimize, the
\* handler's condition on data.particles.length, is true of the parsed data.
\* The calls made with their results, and as result the data to store or the
\* message of the error caught.
loadRun(document, large, optimize) ==
    LET parsed == parseParticleData(document)
        failed == parsed.status = "error"
        optimized == IF ~failed /\ optimize[particleCountOf(parsed.data)]
                     THEN optimizeForRendering(parsed.data, RenderedCap) ELSE Null
    IN  [rawData |-> document,
         parseResult |-> parsed,
         cap |-> IF optimized # Null THEN RenderedCap ELSE JUndefined,
         optimizeResult |-> optimized,
         result |-> IF failed
                    THEN [status |-> "error",
                          message |-> IF large THEN StreamError(parsed.message)
                                      ELSE parsed.message]
                    ELSE IF optimized # Null THEN optimized
                    ELSE [status |-> "ok", data |-> parsed.data]]

\* The calls of the parser that the handler made
parserCalled(run) ==
    /\ rawData' = run.rawData
    /\ parseResult' = run.parseResult
    /\ cap' = run.cap
    /\ optimizeResult' = run.optimizeResult

\* loadSettled setting particleData to null when the load fails
loadSettledClearing(result) ==
    /\ IF result.status = "ok"
       THEN particleData' = result.data /\ UNCHANGED error
       ELSE error' = result.message /\ particleData' = Null
    /\ isLoading' = FALSE
    /\ loadingProgress' = ""

\* loadSettled with setIsLoading(false) at the end of the try block only
loadSettledStillLoading(result) ==
    /\ IF result.status = "ok"
       THEN particleData' = result.data /\ isLoading' = FALSE /\ UNCHANGED error
       ELSE error' = result.message /\ UNCHANGED <<particleData, isLoading>>
    /\ loadingProgress' = ""

\* The end of a load handler: setParticleData(data), or the catch block, and
\* then the finally block
loadSettled(result) ==
    /\ IF result.status = "ok"
       THEN particleData' = result.data /\ UNCHANGED error
       ELSE error' = result.message /\ UNCHANGED particleData
    /\ isLoading' = FALSE
    /\ loadingProgress' = ""

\* A call of an async handler is an activation of its own: two calls with the
\* same arguments at the same await are two handlers in flight. The handler
\* among hs \cup {call} that call is, told apart by n from those like it in hs.
Activation(hs, call) ==
    LET numbered(k) == [op |-> call.op, n |-> k] @@ call
    IN  numbered(CHOOSE k \in 0..MaxPending :
                    /\ numbered(k) \notin hs
                    /\ \A j \in 0..(k - 1) : numbered(j) \in hs)

\* Handlers that differ in n only behave alike: the one of them taken to resume
\* is the one numbered last
Resumes(hs, h) == h \in hs /\ [h EXCEPT !.n = h.n + 1] \notin hs

\* The handler h at its next await
Resumed(hs, h, stage) ==
    Activation(hs, [f \in DOMAIN h \ {"n"} |-> IF f = "stage" THEN stage ELSE h[f]])

\* The start of loadFromJSON(url, optimizeForPerformance), up to await fetch(url)
loadFromJSONStart(optimizeForPerformance) ==
    /\ Cardinality(pending) < MaxPending
    /\ isLoading' = TRUE
    /\ error' = NoError
    /\ loadingProgress' = "Fetching data..."
    /\ pending' = pending \cup
                    {Activation(pending,
                                [op |-> "loadFromJSON", stage |-> "fetch",
                                 optimizeForPerformance |-> optimizeForPerformance])}
    /\ UNCHANGED particleData
    /\ UNCHANGED <<codecVars, parserVars, sceneVars>>

\* loadFromJSON(url, optimizeForPerformance)
loadFromJSON == \E optimizeForPerformance \in BOOLEAN :
    loadFromJSONStart(optimizeForPerformance)

\* loadHoudiniData(): await loadFromJSON('/point_data.json', true)
loadHoudiniData == loadFromJSONStart(TRUE)

\* loadFromJSON resumes after fetch: the response is not ok (throw, catch,
\* finally), or it goes on to await response.json()
loadFromJSONFetched ==
    /\ \E h \in pending :
        /\ Resumes(pending, h)
        /\ h.op = "loadFromJSON"
        /\ h.stage = "fetch"
        /\ \E ok \in BOOLEAN :
            IF ok
            THEN /\ pending' = (pending \ {h}) \cup {Resumed(pending \ {h}, h, "json")}
                 /\ loadingProgress' = "Parsing JSON..."
                 /\ UNCHANGED <<particleData, isLoading, error>>
            ELSE /\ pending' = pending \ {h}
                 /\ loadSettled([status |-> "error", message |-> FetchError])
    /\ UNCHANGED <<codecVars, parserVars, sceneVars>>

\* loadFromJSON resumes after response.json(): parse, optimize, store
loadFromJSONSettle ==
    /\ \E h \in pending :
        /\ Resumes(pending, h)
        /\ h.op = "loadFromJSON"
        /\ h.stage = "json"
        /\ pending' = pending \ {h}
        /\ \E body \in ServedFiles :
            LET run == loadRun(body, FALSE,
                           [length \in Nat |-> h.optimizeForPerformance
                                                \/ length > LargeDatasetPoints])
            IN  loadSettled(run.result) /\ parserCalled(run)
    /\ UNCHANGED <<codecVars, sceneVars>>

\* loadFromFile(file, optimizeForPerformance), up to its await; large: the file
\* has more than 10 MB and goes to streamParseJSON
loadFromFile ==
    /\ Cardinality(pending) < MaxPending
    /\ \E optimizeForPerformance \in BOOLEAN, large \in BOOLEAN :
        /\ pending' = pending \cup
                        {Activation(pending,
                                    [op |-> "loadFromFile", large |-> large,
                                     optimizeForPerformance |-> optimizeForPerformance])}
        /\ loadingProgress' = IF large THEN "Processing large file..." ELSE "Parsing file..."
    /\ isLoading' = TRUE
    /\ error' = NoError
    /\ UNCHANGED particleData
    /\ UNCHANGED <<codecVars, parserVars, sceneVars>>

\* loadFromFile resumes: parse, optimize, store
loadFromFileSettle ==
    /\ \E h \in pending :
        /\ Resumes(pending, h)
        /\ h.op = "loadFromFile"
        /\ pending' = pending \ {h}
        /\ \E text \in ServedFiles :
            LET run == loadRun(text, h.large,
                           [length \in Nat |-> h.optimizeForPerformance
                                                /\ length > RenderedPoints])
            IN  loadSettled(run.result) /\ parserCalled(run)
    /\ UNCHANGED <<codecVars, sceneVars>>

\* loadCustomJSON(): the user selects a file; fileInput.onchange runs up to
\* await file.text()
loadCustomJSON ==
    /\ Cardinality(pending) < MaxPending
    /\ pending' = pending \cup {Activation(pending, [op |-> "loadCustomJSON"])}
    /\ isLoading' = TRUE
    /\ loadingProgress' = "Loading custom JSON..."
    /\ error' = NoError
    /\ UNCHANGED particleData
    /\ UNCHANGED <<codecVars, parserVars, sceneVars>>

\* fileInput.onchange resumes: JSON.parse, parseParticleData, store
loadCustomJSONSettle ==
    /\ \E h \in pending :
        /\ Resumes(pending, h)
        /\ h.op = "loadCustomJSON"
        /\ pending' = pending \ {h}
        /\ \E text \in ServedFiles :
            LET run == loadRun(text, FALSE, [length \in Nat |-> FALSE])
            IN  loadSettled(run.result) /\ parserCalled(run)
    /\ UNCHANGED <<codecVars, sceneVars>>

\* What Math.random gave for the position and the size of a generated particle
ProceduralPositions == { <<Num(0), Num(0), Num(3)>> }
ProceduralSize == Rat(3, 4)

\* hslToRgb(0, 0.8, 0.6), the colour of the particle 0 of any count
ProceduralColor == <<Rat(23, 25), Rat(7, 25), Rat(7, 25)>>

\* The ParticleData that generateProcedural builds, for count 0 and 1
ProceduralData ==
    {[particles |-> [i \in 1..count |->
                        [id |-> <<"particle", i - 1>>, position |-> position,
                         color |-> ProceduralColor, size |-> ProceduralSize]],
      metadata |-> [count |-> count, created |-> Now]] :
        count \in 0..1, position \in ProceduralPositions}

\* generateProcedural(count); it does not await
generateProcedural ==
    /\ particleData' \in ProceduralData
    /\ error' = NoError
    /\ isLoading' = FALSE
    /\ UNCHANGED <<loadingProgress, pending>>
    /\ UNCHANGED <<codecVars, parserVars, sceneVars>>

\* exportTextures without the test for missing or empty particle data
exportTexturesUnguarded ==
    /\ Cardinality(pending) < MaxPending
    /\ isLoading' = TRUE
    /\ loadingProgress' = "Generating PNG textures..."
    /\ pending' = pending \cup
                    {Activation(pending, [op |-> "exportTextures",
                                          stage |-> "exportParticles"])}
    /\ UNCHANGED <<error, particleData>>
    /\ UNCHANGED <<codecVars, parserVars, sceneVars>>

\* exportTextures(), up to await SimpleExporter.exportParticles
exportTextures ==
    /\ IF particleCountOf(particleData) = 0
       THEN /\ error' = NoDataError
            /\ UNCHANGED <<isLoading, loadingProgress, pending>>
       ELSE /\ Cardinality(pending) < MaxPending
            /\ isLoading' = TRUE
            /\ loadingProgress' = "Generating PNG textures..."
            /\ pending' = pending \cup
                            {Activation(pending, [op |-> "exportTextures",
                                                  stage |-> "exportParticles"])}
            /\ UNCHANGED error
    /\ UNCHANGED particleData
    /\ UNCHANGED <<codecVars, parserVars, sceneVars>>

\* exportTextures resumes after exportParticles: it threw (toBlob gave no
\* blob), or the handler goes on to await SimpleExporter.downloadExport
exportTexturesExported ==
    /\ \E h \in pending :
        /\ Resumes(pending, h)
        /\ h.op = "exportTextures"
        /\ h.stage = "exportParticles"
        /\ \E ok \in BOOLEAN :
            IF ok
            THEN /\ pending' = (pending \ {h})
                                    \cup {Resumed(pending \ {h}, h, "downloadExport")}
                 /\ loadingProgress' = "Creating downloads..."
                 /\ UNCHANGED <<isLoading, error>>
            ELSE /\ pending' = pending \ {h}
                 /\ error' = TypeError
                 /\ isLoading' = FALSE
                 /\ loadingProgress' = ""
    /\ UNCHANGED particleData
    /\ UNCHANGED <<codecVars, parserVars, sceneVars>>

\* exportTextures resumes after downloadExport, and ends
exportTexturesSettle ==
    /\ \E h \in pending :
        /\ Resumes(pending, h)
        /\ h.op = "exportTextures"
        /\ h.stage = "downloadExport"
        /\ pending' = pending \ {h}
    /\ isLoading' = FALSE
    /\ loadingProgress' = ""
    /\ UNCHANGED <<particleData, error>>
    /\ UNCHANGED <<codecVars, parserVars, sceneVars>>

NextLoad ==
    \/ setTestData
    \/ clearData
    \/ resetLoadingState
    \/ loadFromJSON
    \/ loadHoudiniData
    \/ loadFromJSONFetched
    \/ loadFromJSONSettle
    \/ loadFromFile
    \/ loadFromFileSettle
    \/ loadCustomJSON
    \/ loadCustomJSONSettle
    \/ generateProcedural
    \/ exportTextures
    \/ exportTexturesExported
    \/ exportTexturesSettle

SpecLoad == Init /\ [][NextLoad]_vars

-----------------------------------------------------------------------------
(* TextureGenerator and Scene *)

\* TextureGenerator.calculateBounds: min and max start from +-Infinity; it is
\* reached with at least one particle (createImageData throws before it
\* otherwise)
calculateGeneratorBounds(ps) ==
    LET vals(i) == {ps[k].position[i] : k \in 1..Len(ps)}
        lo(i) == CHOOSE m \in vals(i) : \A v \in vals(i) : RLe(m, v)
        hi(i) == CHOOSE m \in vals(i) : \A v \in vals(i) : RLe(v, m)
    IN  [min |-> [i \in Axes |-> lo(i)], max |-> [i \in Axes |-> hi(i)]]

\* Math.floor(((v - min) / range) * 255) stored into a Uint8ClampedArray; a
\* range of 0 gives NaN (0 / 0), stored as 0
normalizedPos(v, min, range) ==
    IF range = Num(0) THEN 0
    ELSE ToUint8Clamped(RFloor(RMul(RDiv(RSub(v, min), range), Num(255))))

\* Math.floor(c * 255) stored into a Uint8ClampedArray
normalizedColor(c) == ToUint8Clamped(RFloor(RMul(c, Num(255))))

\* particles.forEach of generateTextures, from index (0-based) on; img is
\* <<positionImageData.data, colorImageData.data>>
RECURSIVE fillTextures(_, _, _, _, _, _)
fillTextures(ps, bounds, range, textureSizePower2, index, img) ==
    IF index >= Len(ps) THEN img
    ELSE LET particle == ps[index + 1]
             x == index % textureSizePower2
             y == index \div textureSizePower2
             pixelIndex == (y * textureSizePower2 + x) * 4
             pos == [img[1] EXCEPT
                        ![pixelIndex + 1] = normalizedPos(particle.position[1], bounds.min[1], range[1]),
                        ![pixelIndex + 2] = normalizedPos(particle.position[2], bounds.min[2], range[2]),
                        ![pixelIndex + 3] = normalizedPos(particle.position[3], bounds.min[3], range[3]),
                        ![pixelIndex + 4] = 255]
             col == [img[2] EXCEPT
                        ![pixelIndex + 1] = normalizedColor(particle.color[1]),
                        ![pixelIndex + 2] = normalizedColor(particle.color[2]),
                        ![pixelIndex + 3] = normalizedColor(particle.color[3]),
                        ![pixelIndex + 4] = 255]
         IN  fillTextures(ps, bounds, range, textureSizePower2, index + 1, <<pos, col>>)

\* TextureGenerator.generateTextures(particles): the two canvases and their
\* size; for no particles the size is 0 and createImageData(0, 0) throws
generateTextures(ps) ==
    LET textureSizePower2 == textureSizeFor(Len(ps))
    IN  IF textureSizePower2 = 0 THEN [status |-> "error"]
        ELSE LET bounds == calculateGeneratorBounds(ps)
                 range == [i \in Axes |-> RSub(bounds.max[i], bounds.min[i])]
                 blank == createImageData(textureSizePower2)
                 img == fillTextures(ps, bounds, range, textureSizePower2, 0, <<blank, blank>>)
             IN  [status |-> "ok",
                  textures |-> [positionTexture |-> putImageData(blank, img[1]),
                                colorTexture |-> putImageData(blank, img[2]),
                                width |-> textureSizePower2,
                                height |-> textureSizePower2]]

VisualizationModes == {"json", "texture"}

\* The dependency arrays of the two effects of Scene, as the current render
\* sees them
generateTexturesDeps ==
    [visualizationMode |-> visualizationMode, particleData |-> particleData,
     textureData |-> textureData]
resetTextureDataDeps == [visualizationMode |-> visualizationMode]

\* Every effect has run for the values of the current render
EffectsHaveRun ==
    /\ generateDeps = generateTexturesDeps
    /\ resetDeps = resetTextureDataDeps

\* The JSON/Texture buttons of CustomUI: onChange({ visualizationMode }),
\* merged into uiState by Scene
setVisualizationMode ==
    /\ EffectsHaveRun
    /\ visualizationMode' \in VisualizationModes
    /\ UNCHANGED <<textureData, generateDeps, resetDeps>>
    /\ UNCHANGED <<hookVars, codecVars, parserVars>>

\* The first effect of Scene: textures are generated in texture mode when there
\* are particle data and no textures yet
generateTexturesEffect ==
    /\ generateDeps # generateTexturesDeps
    /\ generateDeps' = generateTexturesDeps
    /\ IF visualizationMode = "texture" /\ particleData # Null /\ textureData = Null
       THEN LET textures == generateTextures(particleData.particles)
            IN  IF textures.status = "ok"
                THEN textureData' = textures.textures
                ELSE UNCHANGED textureData
       ELSE UNCHANGED textureData
    /\ UNCHANGED <<visualizationMode, resetDeps>>
    /\ UNCHANGED <<hookVars, codecVars, parserVars>>

\* The second effect of Scene, run after the first: the textures are dropped in
\* json mode
resetTextureDataEffect ==
    /\ generateDeps = generateTexturesDeps
    /\ resetDeps # resetTextureDataDeps
    /\ resetDeps' = resetTextureDataDeps
    /\ IF visualizationMode = "json"
       THEN textureData' = Null
       ELSE UNCHANGED textureData
    /\ UNCHANGED <<visualizationMode, generateDeps>>
    /\ UNCHANGED <<hookVars, codecVars, parserVars>>

\* The Test Simple Data button
handleTestSimpleData == EffectsHaveRun /\ setTestData

\* The Load from Textures button, and the settling of its load; events and
\* completions are handled once the effects of the last render have run, and
\* the user waits for a selection to settle before the next one
onLoadFromTextures == EffectsHaveRun /\ pending = {} /\ loadFromTexturesSelect
onLoadFromTexturesSettle == EffectsHaveRun /\ loadFromTexturesSettle

NextScene ==
    \/ setVisualizationMode
    \/ generateTexturesEffect
    \/ resetTextureDataEffect
    \/ handleTestSimpleData
    \/ onLoadFromTextures
    \/ onLoadFromTexturesSettle

SpecScene == Init /\ [][NextScene]_vars

-----------------------------------------------------------------------------
(* Properties of the codec *)

\* The loader has returned a collection
Loaded == loadResult # Null /\ loadResult.status = "ok"

\* The loader has returned what it read from an exported pair
LoadedExported == exportResult # Null /\ exportResult.status = "ok" /\ Loaded

\* ... using the exported metadata
LoadedExportedWithMetadata == LoadedExported /\ metadata # Null

\* The particle that exportParticles wrote to the pixel at pixelIndex
WrittenTo(pixelIndex) == particles[(pixelIndex \div 4) + 1]

\* max - min of the collection on axis i
AxisExtent(i) ==
    LET vals == {particles[k].position[i] : k \in 1..Len(particles)}
        lo == CHOOSE m \in vals : \A v \in vals : RLe(m, v)
        hi == CHOOSE m \in vals : \A v \in vals : RLe(v, m)
    IN  RSub(hi, lo)

\* Emitted particle n is within R/255 of the particle written to its pixel, on axis i
AxisWithinStep(n, i) ==
    RLe(RAbs(RSub(loadResult.data.particles[n].position[i],
                  WrittenTo(loadResult.pixels[n]).position[i])),
        RDiv(AxisExtent(i), Num(255)))

\* C1: position round trip. Export then load with the exported metadata gives,
\* for each emitted point, the position of the point written to the same pixel
\* to within R/255 on every axis, whatever the bounds of the collection.
C1_PositionRoundTrip ==
    LoadedExportedWithMetadata =>
        \A n \in 1..Len(loadResult.data.particles) : \A i \in Axes : AxisWithinStep(n, i)

\* The same on the X and Z axes only
C1_PositionRoundTripXZ ==
    LoadedExportedWithMetadata =>
        \A n \in 1..Len(loadResult.data.particles) : \A i \in {1, 3} : AxisWithinStep(n, i)

ColorsInUnitRange ==
    \A k \in 1..Len(particles) : \A c \in Axes :
        RLe(Num(0), particles[k].color[c]) /\ RLe(particles[k].color[c], Num(1))

\* C2: colour round trip. For a collection whose colour channels lie in [0,1],
\* export then load gives each emitted point the colour of the point written to
\* the same pixel to within 1/255 on every channel.
C2_ColorRoundTrip ==
    (LoadedExported /\ ColorsInUnitRange) =>
        \A n \in 1..Len(loadResult.data.particles) : \A c \in Axes :
            RLe(RAbs(RSub(loadResult.data.particles[n].color[c],
                          WrittenTo(loadResult.pixels[n]).color[c])),
                Rat(1, 255))

\* Two points came back, one of them with a colour channel that changed
C2_Witness ==
    /\ LoadedExported /\ ColorsInUnitRange
    /\ Len(loadResult.data.particles) >= 2
    /\ \E n \in 1..Len(loadResult.data.particles) : \E c \in Axes :
        loadResult.data.particles[n].color[c] # WrittenTo(loadResult.pixels[n]).color[c]

\* C3: no encoded point is lost. Loading an exported pair of n >= 1 points
\* skips exactly the padding pixels (index >= n) and emits exactly n points.
C3_NoPointLost ==
    LoadedExported =>
        /\ Len(loadResult.data.particles) = Len(particles)
        /\ {loadResult.pixels[n] : n \in 1..Len(loadResult.pixels)}
              = {4 * k : k \in 0..(Len(particles) - 1)}

\* The pixels (0-based) of the loaded pair with a non-zero RGB channel in either image
NonZeroPixels ==
    {k \in 0..(positionImageData.width * positionImageData.height - 1) :
        \E c \in 1..3 : positionImageData.data[4 * k + c] # 0 \/ colorImageData.data[4 * k + c] # 0}

\* C4: occupancy rule of the loader. It emits exactly one point for each pixel
\* whose position RGB or colour RGB has a non-zero channel and none for the
\* others, whatever the alpha bytes are.
C4_Occupancy ==
    Loaded =>
        /\ Len(loadResult.pixels) = Cardinality(NonZeroPixels)
        /\ Len(loadResult.data.particles) = Cardinality(NonZeroPixels)
        /\ {loadResult.pixels[n] : n \in 1..Len(loadResult.pixels)} = {4 * k : k \in NonZeroPixels}

\* A load of arbitrary images that skipped an opaque black pixel and emitted a
\* pixel whose position triple is zero and one that is not opaque
C4_Witness ==
    /\ exportResult = Null /\ Loaded
    /\ \E k \in 0..(positionImageData.width * positionImageData.height - 1) :
        /\ k \notin NonZeroPixels
        /\ positionImageData.data[4 * k + 4] = 255
    /\ \E n \in 1..Len(loadResult.pixels) :
        /\ \A c \in 1..3 : positionImageData.data[loadResult.pixels[n] + c] = 0
        /\ colorImageData.data[loadResult.pixels[n] + 4] # 255

\* C5 as stated: for any images and metadata, the loader emits no more points
\* than the metadata's particleCount.
C5_AtMostParticleCount ==
    (Loaded /\ metadata # Null) => Len(loadResult.data.particles) <= metadata.particleCount

\* C5 amended: for a pair produced by exportParticles and loaded with the
\* metadata exported with it, the loader emits no more points than the
\* metadata's particleCount.
C5_ExportedAtMostParticleCount ==
    LoadedExportedWithMetadata => Len(loadResult.data.particles) <= metadata.particleCount

\* An exported pair with padding came back with as many points as were exported
C5_Witness ==
    /\ LoadedExportedWithMetadata
    /\ Len(loadResult.data.particles) = metadata.particleCount
    /\ metadata.particleCount < metadata.width * metadata.height

IsPowerOfTwo(n) == \E e \in 0..n : Pow2(e) = n

\* C6: texture size. For n >= 1 points the size is the smallest power of two
\* >= ceil(sqrt(n)), size * size >= n, both images are size x size, and 5
\* points give size 4: 16 slots, 11 of them padding with all-zero RGB.
C6_TextureSize ==
    (exportResult # Null /\ Len(particles) >= 1) =>
        /\ exportResult.status = "ok"
        /\ LET n == Len(particles)
               size == exportResult.metadata.width
               root == CHOOSE k \in 1..n : k * k >= n /\ (k - 1) * (k - 1) < n
               padding == {k \in 0..(size * size - 1) :
                             /\ k >= n
                             /\ \A c \in 1..3 :
                                  /\ exportResult.positionImage.data[4 * k + c] = 0
                                  /\ exportResult.colorImage.data[4 * k + c] = 0}
           IN  /\ IsPowerOfTwo(size)
               /\ size >= root
               /\ \A q \in 1..(size - 1) : IsPowerOfTwo(q) => q < root
               /\ size * size >= n
               /\ \A image \in {exportResult.positionImage, exportResult.colorImage} :
                    /\ image.width = size /\ image.height = size
                    /\ Len(image.data) = 4 * size * size
               /\ n = 5 => (size = 4 /\ size * size = 16 /\ Cardinality(padding) = 11)

\* Five points were exported
C6_Witness == exportResult # Null /\ Len(particles) = 5

\* C7: padding pixels. In both exported images every pixel with index
\* i >= pointCount is (0,0,0,255).
C7_PaddingOpaqueBlack ==
    (exportResult # Null /\ exportResult.status = "ok") =>
        \A image \in {exportResult.positionImage, exportResult.colorImage} :
            \A k \in Len(particles)..(image.width * image.height - 1) :
                <<image.data[4 * k + 1], image.data[4 * k + 2],
                  image.data[4 * k + 3], image.data[4 * k + 4]>> = <<0, 0, 0, 255>>

\* What the exporter leaves there: all four bytes zero
C7_PaddingTransparentBlack ==
    (exportResult # Null /\ exportResult.status = "ok") =>
        \A image \in {exportResult.positionImage, exportResult.colorImage} :
            \A k \in Len(particles)..(image.width * image.height - 1) :
                <<image.data[4 * k + 1], image.data[4 * k + 2],
                  image.data[4 * k + 3], image.data[4 * k + 4]>> = <<0, 0, 0, 0>>

\* C8: export metadata. width = height = size, particleCount is the number of
\* input points, and bounds are the per-axis minimum and maximum of the
\* original (not Y-flipped) positions, with min <= max.
C8_ExportMetadata ==
    (exportResult # Null /\ exportResult.status = "ok") =>
        LET m == exportResult.metadata
            ks == 1..Len(particles)
        IN  /\ m.width = exportResult.positionImage.width
            /\ m.height = m.width
            /\ m.particleCount = Len(particles)
            /\ \A i \in Axes :
                /\ \A k \in ks : RLe(m.bounds.min[i], particles[k].position[i])
                /\ \A k \in ks : RLe(particles[k].position[i], m.bounds.max[i])
                /\ \E k \in ks : m.bounds.min[i] = particles[k].position[i]
                /\ \E k \in ks : m.bounds.max[i] = particles[k].position[i]
                /\ RLe(m.bounds.min[i], m.bounds.max[i])

\* An export of two or more points whose Y bounds differ from the flipped ones
\* and whose coordinates are all negative on some axis
C8_Witness ==
    /\ exportResult # Null /\ exportResult.status = "ok"
    /\ Len(particles) >= 2
    /\ exportResult.metadata.bounds.min[2] # RNeg(exportResult.metadata.bounds.max[2])
    /\ \E i \in Axes : RLt(exportResult.metadata.bounds.max[i], Num(0))

\* The loader ran without bounds from a metadata file
LoadedWithoutBounds == loadResult # Null /\ metadataBounds(metadata) = Null

\* C11: missing metadata is degraded, not fatal. Without a metadata file, or
\* with a metadata file that has no bounds, loadFromTextures of two images of
\* equal dimensions still returns a collection; each position is dequantized
\* with the fallback bounds (-20,-20,-20)..(20,20,20), byte / 255 * 40 - 20
\* with Y negated, and every coordinate lies in [-20, 20], whatever bounds the
\* images were encoded with.
C11_FallbackBounds ==
    (LoadedWithoutBounds /\ dimensionsMatch(positionImageData, colorImageData)) =>
        /\ loadResult.status = "ok"
        /\ \A n \in 1..Len(loadResult.data.particles) :
            LET p == loadResult.data.particles[n].position
                byte(i) == positionImageData.data[loadResult.pixels[n] + i]
                fallback(i) == RSub(RMul(Rat(byte(i), 255), Num(40)), Num(20))
            IN  /\ p = <<fallback(1), RNeg(fallback(2)), fallback(3)>>
                /\ \A i \in Axes : RLe(Num(-20), p[i]) /\ RLe(p[i], Num(20))

\* An exported pair whose bounds are not the fallback bounds was loaded without
\* its metadata file, and a point came back on the edge of the fallback box
C11_Witness ==
    /\ LoadedExported /\ metadata = Null
    /\ exportResult.metadata.bounds # estimateBounds
    /\ \E n \in 1..Len(loadResult.data.particles) : \E i \in Axes :
        RAbs(loadResult.data.particles[n].position[i]) = Num(20)

\* Arbitrary images were loaded with a metadata file that has no bounds
C11_WitnessNoBounds ==
    /\ exportResult = Null /\ Loaded /\ metadata # Null /\ metadata.bounds = Null
    /\ Len(loadResult.data.particles) >= 1

\* The bytes R, G, B, A of the pixel at byte offset pixelIndex of an image
PixelAt(image, pixelIndex) == [c \in 1..4 |-> image.data[pixelIndex + c]]

\* The bytes that exportParticles derives from the particle at index i
\* (0-based): its position against the inverted bounds, and its colour
PositionBytes(i) ==
    LET bounds == invertedBounds(calculateBounds(particles))
        range == rangeOf(bounds)
        ep == exportPosition(particles[i + 1])
    IN  <<quantizePosition(ep[1], bounds.min[1], range[1]),
          quantizePosition(ep[2], bounds.min[2], range[2]),
          quantizePosition(ep[3], bounds.min[3], range[3]), 255>>
ColorBytes(i) ==
    <<quantizeColor(particles[i + 1].color[1]), quantizeColor(particles[i + 1].color[2]),
      quantizeColor(particles[i + 1].color[3]), 255>>

Exported == exportResult # Null /\ exportResult.status = "ok"

C22_ShuffleBijection ==
    Loaded =>
        LET textureWidth == positionImageData.width
            textureHeight == positionImageData.height
            length == textureWidth * textureHeight
            seed == length * 1337
            order == visitingOrder(textureWidth, textureHeight)
        IN  /\ \A i \in 1..(length - 1) :
                shuffleIndex(seed, i) >= 0 /\ shuffleIndex(seed, i) <= i
            /\ Len(order) = length
            /\ \A x \in 0..(textureWidth - 1), y \in 0..(textureHeight - 1) :
                Cardinality({k \in 1..length : order[k].x = x /\ order[k].y = y}) = 1
            /\ \A k \in 1..length :
                order[k].pixelIndex = (order[k].y * textureWidth + order[k].x) * 4
            /\ \A a, b \in 1..Len(loadResult.pixels) :
                a # b => loadResult.pixels[a] # loadResult.pixels[b]

\* A load of an image of several rows and columns in which the shuffle moved
\* pixels, and more than one pixel was emitted
C22_Witness ==
    /\ Loaded
    /\ positionImageData.width >= 4 /\ positionImageData.height >= 4
    /\ visitingOrder(positionImageData.width, positionImageData.height)
          # pixelPositionsOf(positionImageData.width, positionImageData.height)
    /\ Len(loadResult.pixels) >= 2
    /\ loadResult.pixels[1] > loadResult.pixels[2]

\* C23: decoded ids. The k-th point emitted by loadFromTextures (k counted
\* from 0 in emission order, skipped pixels not counted) has the id
\* texture_particle_<k>; the ids of a decoded collection are pairwise distinct
\* and are exactly texture_particle_0 .. texture_particle_(count - 1),
\* independent of pixel indices, and metadata.count is the number of emitted
\* points.
C23_DecodedIds ==
    Loaded =>
        LET emitted == loadResult.data.particles
            count == loadResult.data.metadata.count
        IN  /\ \A k \in 0..(Len(emitted) - 1) : emitted[k + 1].id = <<"texture_particle", k>>
            /\ \A a, b \in 1..Len(emitted) : a # b => emitted[a].id # emitted[b].id
            /\ {emitted[n].id : n \in 1..Len(emitted)}
                  = {<<"texture_particle", k>> : k \in 0..(count - 1)}
            /\ count = Len(emitted)

\* A load that skipped a pixel before an emitted one and emitted two points,
\* the second from a pixel in front of the first: no id is the number of its pixel
C23_Witness ==
    /\ Loaded
    /\ Len(loadResult.pixels) >= 2
    /\ Len(loadResult.pixels) < positionImageData.width * positionImageData.height
    /\ loadResult.pixels[1] > loadResult.pixels[2]
    /\ \A n \in 1..Len(loadResult.pixels) :
        loadResult.data.particles[n].id # <<"texture_particle", loadResult.pixels[n] \div 4>>

\* All points of the collection share their coordinate on axis i
Degenerate(i) == Len(particles) >= 1 /\ AxisExtent(i) = Num(0)

\* C25: degenerate axis. When all points of a collection share the same
\* coordinate on an axis, exportParticles substitutes a range of 1 and writes
\* byte 0 for that axis in every occupied pixel, and loadFromTextures with the
\* exported metadata likewise substitutes range 1: neither divides by zero,
\* and the export and the load both return.
C25_DegenerateAxis ==
    \A i \in Axes :
        /\ (Exported /\ Degenerate(i)) =>
            /\ rangeOf(invertedBounds(calculateBounds(particles)))[i] = Num(1)
            /\ \A k \in 0..(Len(particles) - 1) :
                exportResult.positionImage.data[pixelIndexOf(k, exportResult.metadata.width) + i] = 0
        /\ (exportResult # Null /\ Len(particles) >= 1) => Exported
        /\ (Exported /\ loadResult # Null) => Loaded
        /\ (LoadedExportedWithMetadata /\ Degenerate(i)) =>
            rangeOf(metadataBounds(metadata))[i] = Num(1)

\* A collection flat on one axis only, with its coordinate there not 0, was
\* exported and loaded with the exported metadata
C25_Witness ==
    /\ LoadedExportedWithMetadata
    /\ Len(particles) >= 2
    /\ \E i \in Axes : Degenerate(i) /\ particles[1].position[i] # Num(0)
    /\ \E i \in Axes : ~Degenerate(i)
    /\ Len(loadResult.data.particles) >= 1

\* Every byte of the image is in 0..255
BytesInRange(image) == \A k \in 1..Len(image.data) : image.data[k] \in 0..255

\* C26: quantization never fails and always clamps. For any position and any
\* colour channel value, including colour values below 0 or above 1,
\* exportParticles stores a byte in 0..255 (values below the range give 0,
\* values above give 255) and raises no error. The range of a position byte
\* is from the minimum of the axis to the minimum plus the range divided by.
C26_QuantizationClamps ==
    /\ (exportResult # Null /\ Len(particles) >= 1) => Exported
    /\ Exported =>
        /\ BytesInRange(exportResult.positionImage)
        /\ BytesInRange(exportResult.colorImage)
        /\ \A k \in 0..(Len(particles) - 1) : \A c \in Axes :
            LET value == particles[k + 1].color[c]
                byte == exportResult.colorImage.data[pixelIndexOf(k, exportResult.metadata.width) + c]
            IN  /\ RLt(value, Num(0)) => byte = 0
                /\ RLt(Num(1), value) => byte = 255
        /\ LET bounds == invertedBounds(calculateBounds(particles))
               range == rangeOf(bounds)
           IN  \A position \in TestPositions : \A i \in Axes :
                   LET v == exportPosition([position |-> position])[i]
                       byte == quantizePosition(v, bounds.min[i], range[i])
                   IN  /\ byte \in 0..255
                       /\ RLt(v, bounds.min[i]) => byte = 0
                       /\ RLt(RAdd(bounds.min[i], range[i]), v) => byte = 255

\* An export of a point with one colour channel above 1 and one below 0, and
\* of a point with a channel inside; a test position lies outside the bounds
C26_Witness ==
    /\ Exported
    /\ \E k \in 1..Len(particles) :
        /\ \E c \in Axes : RLt(Num(1), particles[k].color[c])
        /\ \E c \in Axes : RLt(particles[k].color[c], Num(0))
    /\ \E k \in 1..Len(particles) : \E c \in Axes :
        RLt(Num(0), particles[k].color[c]) /\ RLt(particles[k].color[c], Num(1))
    /\ \E position \in TestPositions : \E i \in Axes :
        RLt(calculateBounds(particles).max[i], position[i])

\* The bounds in the metadata of the collection that the loader returned
ReportedBounds == loadResult.data.metadata.bounds

\* The decoded point n lies within the reported bounds on axis i
WithinReported(n, i) ==
    /\ RLe(ReportedBounds.min[i], loadResult.data.particles[n].position[i])
    /\ RLe(loadResult.data.particles[n].position[i], ReportedBounds.max[i])

\* C28: decoded points lie inside the reported bounds. For every collection
\* returned by loadFromTextures, each point's position lies, on every axis,
\* within the bounds reported in the returned metadata (the metadata file's
\* bounds when provided, otherwise the bounds recomputed from the decoded
\* points).
C28_DecodedWithinBounds ==
    Loaded =>
        \A n \in 1..Len(loadResult.data.particles) : \A i \in Axes : WithinReported(n, i)

\* What the code does: the decoded points are within the bounds recomputed
\* from them; with the metadata of the export they are within its bounds on
\* the X and Z axes, and on the Y axis within those bounds negated
C28_DecodedWithinBoundsXZ ==
    /\ (Loaded /\ metadataBounds(metadata) = Null) =>
        \A n \in 1..Len(loadResult.data.particles) : \A i \in Axes : WithinReported(n, i)
    /\ LoadedExportedWithMetadata =>
        \A n \in 1..Len(loadResult.data.particles) :
            /\ WithinReported(n, 1) /\ WithinReported(n, 3)
            /\ RLe(RNeg(ReportedBounds.max[2]), loadResult.data.particles[n].position[2])
            /\ RLe(loadResult.data.particles[n].position[2], RNeg(ReportedBounds.min[2]))

-----------------------------------------------------------------------------
(* Properties of HoudiniParser *)

\* parseParticleData has returned a collection
Parsed == parseResult # Null /\ parseResult.status = "ok"

\* optimizeForRendering has returned a collection
Optimized == optimizeResult # Null /\ optimizeResult.status = "ok"

\* The points given to optimizeForRendering, and the points it returned
InputPoints == get(parseResult.data, "particles").items
OutputPoints == get(optimizeResult.data, "particles").items

\* The cap is an integer M with 1 <= M < L, L the length of the input
CapBelowLength ==
    /\ cap.type = "number"
    /\ 1 <= cap.value[1]
    /\ cap.value[1] < Len(InputPoints)

\* No cap, or the length of the input is at most the cap
CapNotBelowLength ==
    \/ cap.type = "undefined"
    \/ cap.type = "number" /\ Len(InputPoints) <= cap.value[1]

\* Every point of the input has a position to read
AllPositioned == \A k \in 1..Len(InputPoints) : ~positionThrows(InputPoints[k])

\* C12: subsampler bound. For every collection of length L and every cap M
\* with 1 <= M < L, optimizeForRendering(data, M) returns a collection whose
\* length is at most M and at least 1.
C12_SubsamplerBound ==
    (optimizeResult # Null /\ CapBelowLength) =>
        /\ AllPositioned => optimizeResult.status = "ok"
        /\ optimizeResult.status = "ok" =>
            /\ Len(OutputPoints) <= cap.value[1]
            /\ Len(OutputPoints) >= 1

\* A collection was cut down to fewer points than the cap, but more than one
C12_Witness ==
    /\ Optimized /\ CapBelowLength
    /\ Len(OutputPoints) < cap.value[1]
    /\ Len(OutputPoints) > 1

\* The metadata given to optimizeForRendering, and the metadata it returned
InputMetadata == get(parseResult.data, "metadata")
OutputMetadata == get(optimizeResult.data, "metadata")

\* C13 as stated: subsampler identity. When the length is at most the cap, or
\* no cap is given, optimizeForRendering returns the same points in the same
\* order and the same metadata as the input, apart from metadata.optimized
\* being false.
C13_InputUnchanged ==
    (optimizeResult # Null /\ AllPositioned /\ CapNotBelowLength) =>
        /\ optimizeResult.status = "ok"
        /\ OutputPoints = InputPoints
        /\ get(OutputMetadata, "optimized") = JBool(FALSE)
        /\ \A key \in {"count", "bounds", "created", "source"} :
            get(OutputMetadata, key) = get(InputMetadata, key)

\* The minimum (maximum) of the output metadata's bounds on axis i
OutputMin(i) == get(get(OutputMetadata, "bounds"), "min").items[i]
OutputMax(i) == get(get(OutputMetadata, "bounds"), "max").items[i]

\* C13 amended: when the length is at most the cap, or no cap is given,
\* optimizeForRendering returns the same points in the same order; the
\* metadata is built anew: count is the number of points, bounds are the
\* per-axis minimum and maximum of the positions, created and source are those
\* of the input (created is the current time when the input has none),
\* optimized is false, and there is no other field.
C13_PointsUnchanged ==
    (optimizeResult # Null /\ AllPositioned /\ CapNotBelowLength) =>
        /\ optimizeResult.status = "ok"
        /\ OutputPoints = InputPoints
        /\ DOMAIN OutputMetadata.fields = {"count", "created", "source", "bounds", "optimized"}
        /\ get(OutputMetadata, "optimized") = JBool(FALSE)
        /\ get(OutputMetadata, "count") = JNum(Num(Len(InputPoints)))
        /\ get(OutputMetadata, "source") = get(InputMetadata, "source")
        /\ get(OutputMetadata, "created") =
              (IF get(InputMetadata, "created").type = "undefined"
               THEN JStr(Now) ELSE get(InputMetadata, "created"))
        /\ \A i \in Axes :
            /\ \A k \in 1..Len(InputPoints) :
                /\ RLe(OutputMin(i).value, positionAt(InputPoints[k], i).value)
                /\ RLe(positionAt(InputPoints[k], i).value, OutputMax(i).value)
            /\ \E k \in 1..Len(InputPoints) : OutputMin(i) = positionAt(InputPoints[k], i)
            /\ \E k \in 1..Len(InputPoints) : OutputMax(i) = positionAt(InputPoints[k], i)

\* A collection of as many points as the cap, whose metadata had other bounds
\* and another count, came back with every point
C13_Witness ==
    /\ Optimized /\ AllPositioned
    /\ cap.type = "number" /\ Len(InputPoints) = cap.value[1] /\ Len(InputPoints) >= 2
    /\ get(InputMetadata, "bounds").type = "object"
    /\ get(InputMetadata, "bounds") # get(OutputMetadata, "bounds")
    /\ get(InputMetadata, "count") # get(OutputMetadata, "count")
    /\ OutputPoints = InputPoints

\* The subsampler on a dataset of LargeDatasetLength points with the cap
\* OptimizedLength: step 2, and exactly the even indices 0 .. 99998 are kept
C14_LargeDataset ==
    /\ strideOf(LargeDatasetLength, OptimizedLength) = 2
    /\ retainedIndices(LargeDatasetLength, strideOf(LargeDatasetLength, OptimizedLength))
          = [n \in 1..OptimizedLength |-> 2 * (n - 1)]

\* C14: subsampler stride. When length > maxN >= 1, optimizeForRendering keeps
\* exactly the points at the indices 0, step, 2*step, ... below length, with
\* step = ceil(length / maxN), in their original order and no other point;
\* length 100000 with maxN 50000 gives step 2 and the 50000 even indices.
C14_SubsamplerStride ==
    /\ C14_LargeDataset
    /\ (Optimized /\ CapBelowLength) =>
        LET length == Len(InputPoints)
            maxN == cap.value[1]
            step == CHOOSE c \in 1..length : c * maxN >= length /\ (c - 1) * maxN < length
            multiples == {index \in 0..(length - 1) : \E q \in 0..length : index = q * step}
        IN  /\ Len(OutputPoints) = Cardinality(multiples)
            /\ \A n \in 1..Len(OutputPoints) :
                /\ (n - 1) * step \in multiples
                /\ OutputPoints[n] = InputPoints[(n - 1) * step + 1]

\* Seven distinct points were cut with the cap 3: step 3, the points 0, 3 and 6
C14_Witness ==
    /\ Optimized /\ CapBelowLength
    /\ Len(InputPoints) = 7 /\ cap.value[1] = 3
    /\ \A j, k \in 1..7 : j # k => InputPoints[j] # InputPoints[k]
    /\ OutputPoints = <<InputPoints[1], InputPoints[4], InputPoints[7]>>

\* The three outcomes of parseParticleData that the format detection names
ConvertedFormatA == parseResult.status = "ok" /\ parseResult.format = "houdini"
PassedFormatB == parseResult.status = "ok" /\ parseResult.format = "internal"
UnknownFormat == parseResult.status = "error" /\ parseResult.message = UnknownFormatError

\* C15: format detection totality. For any parsed document, null, scalars,
\* empty arrays and arrays or particles lists whose first element is null or a
\* scalar included, parseParticleData ends in exactly one of Format-A
\* conversion, Format-B pass-through and the unknown-format error.
C15_FormatDetectionTotal ==
    parseResult # Null =>
        /\ ConvertedFormatA \/ PassedFormatB \/ UnknownFormat
        /\ ~(ConvertedFormatA /\ PassedFormatB)
        /\ ~(ConvertedFormatA /\ UnknownFormat)
        /\ ~(PassedFormatB /\ UnknownFormat)

\* What the code does: a fourth outcome, the TypeError of `in` or of a
\* property read on null
C15_FormatDetectionOrTypeError ==
    parseResult # Null =>
        \/ ConvertedFormatA \/ PassedFormatB \/ UnknownFormat
        \/ parseResult.status = "error" /\ parseResult.message = TypeError

\* The document is an array of one or more records {P, Cd}
ArrayOfRecords ==
    /\ isArray(rawData)
    /\ Len(rawData.items) >= 1
    /\ \A k \in 1..Len(rawData.items) :
        /\ rawData.items[k].type = "object"
        /\ In("P", rawData.items[k]) /\ In("Cd", rawData.items[k])
        /\ isArray(get(rawData.items[k], "P")) /\ Len(get(rawData.items[k], "P").items) = 3
        /\ isArray(get(rawData.items[k], "Cd")) /\ Len(get(rawData.items[k], "Cd").items) = 3

\* parseParticleData returned as many points as there are records, in their
\* order, point i (from 0) with the id prefix_<i>, position P, colour Cd, size 1.0
ConvertedWithIds(prefix) ==
    /\ ConvertedFormatA
    /\ Len(InputPoints) = Len(rawData.items)
    /\ \A k \in 1..Len(rawData.items) :
        InputPoints[k] = JObj([id |-> JStr(<<prefix, k - 1>>),
                               position |-> rawData.items[k].fields.P,
                               color |-> rawData.items[k].fields.Cd,
                               size |-> JNum(Num(1))])

\* C16 as stated: Format-A conversion. parseParticleData on an array of k
\* records {P, Cd} returns exactly k points in input order, point i with id
\* "particle_<i>", position P, colour Cd and size 1.0.
C16_ConversionPlainIds ==
    (parseResult # Null /\ ArrayOfRecords) => ConvertedWithIds("particle")

\* C16 amended: the same, with the id "houdini_particle_<i>"; two records give
\* the ids houdini_particle_0 and houdini_particle_1.
C16_ConversionHoudiniIds ==
    (parseResult # Null /\ ArrayOfRecords) =>
        /\ ConvertedWithIds("houdini_particle")
        /\ Len(rawData.items) = 2 =>
            /\ get(InputPoints[1], "id") = JStr(<<"houdini_particle", 0>>)
            /\ get(InputPoints[2], "id") = JStr(<<"houdini_particle", 1>>)

\* Two records with different P and Cd were converted
C16_Witness ==
    /\ parseResult # Null /\ ArrayOfRecords /\ ConvertedFormatA
    /\ Len(rawData.items) = 2
    /\ get(InputPoints[1], "position") # get(InputPoints[2], "position")
    /\ get(InputPoints[1], "color") # get(InputPoints[2], "color")

\* The document is an object with a particles array whose first element is
\* an object
ObjectWithParticles ==
    /\ rawData.type = "object"
    /\ isArray(get(rawData, "particles"))
    /\ Len(get(rawData, "particles").items) >= 1
    /\ get(rawData, "particles").items[1].type = "object"

\* The first element of the particles array has every one of the fields
FirstHas(required) ==
    \A key \in required : In(key, get(rawData, "particles").items[1])

\* C17: Format-B pass-through. A document with a particles array is accepted
\* only if the required fields id, position and color are present on its
\* first element; the elements after the first are not validated; an accepted
\* document is returned unchanged (same particles, same order, same metadata).
C17_PassThrough ==
    (parseResult # Null /\ ObjectWithParticles) =>
        /\ PassedFormatB <=> FirstHas({"id", "position", "color"})
        /\ PassedFormatB => parseResult.data = rawData

\* What the code does: it asks the first element for position and color only
C17_PassThroughPositionColor ==
    (parseResult # Null /\ ObjectWithParticles) =>
        /\ PassedFormatB <=> FirstHas({"position", "color"})
        /\ ~PassedFormatB => UnknownFormat
        /\ PassedFormatB => parseResult.data = rawData

\* The positions of the points ps on axis i, all of them numbers
AxisValues(ps, i) == {positionAt(ps[k], i) : k \in 1..Len(ps)}
AxisNumeric(ps, i) == \A v \in AxisValues(ps, i) : v.type = "number"

\* m is the least (the greatest) of the numbers vs
LeastOf(m, vs) == m \in vs /\ \A v \in vs : RLe(m.value, v.value)
GreatestOf(m, vs) == m \in vs /\ \A v \in vs : RLe(v.value, m.value)

\* optimizeForRendering returned fewer points than it was given
Dropped == Optimized /\ Len(OutputPoints) < Len(InputPoints)

\* C24: subsampler bounds and flag. When optimizeForRendering drops points,
\* the bounds in the returned metadata are the per-axis minimum and maximum
\* over the retained points only (not over the original collection),
\* metadata.count is the retained length, and metadata.optimized is true;
\* optimized is true if and only if at least one point was dropped.
C24_SubsamplerBoundsAndFlag ==
    /\ Optimized =>
        (get(OutputMetadata, "optimized") = JBool(TRUE) <=> Dropped)
    /\ Optimized => get(OutputMetadata, "optimized").type = "boolean"
    /\ Dropped =>
        /\ get(OutputMetadata, "count") = JNum(Num(Len(OutputPoints)))
        /\ \A i \in Axes :
            AxisNumeric(OutputPoints, i) =>
                /\ LeastOf(OutputMin(i), AxisValues(OutputPoints, i))
                /\ GreatestOf(OutputMax(i), AxisValues(OutputPoints, i))

\* Points were dropped, and with them the greatest on one axis and the least
\* on another: the bounds returned are not those of the collection given
C24_Witness ==
    /\ Dropped
    /\ Len(OutputPoints) >= 2
    /\ \A i \in Axes : AxisNumeric(InputPoints, i)
    /\ \E i \in Axes : ~GreatestOf(OutputMax(i), AxisValues(InputPoints, i))
    /\ \E i \in Axes : ~LeastOf(OutputMin(i), AxisValues(InputPoints, i))

-----------------------------------------------------------------------------
(* Properties of useParticleData *)

\* The handler h awaits a load of two decodable images of different dimensions
Mismatched(h) ==
    /\ h.op = "loadFromTextures"
    /\ h.positionFile # BadImage /\ h.colorFile # BadImage
    /\ \/ h.positionFile.width # h.colorFile.width
       \/ h.positionFile.height # h.colorFile.height

\* C10: dimension mismatch. When the position image and the colour image
\* differ in width or height, TextureLoader.loadFromTextures fails with an
\* error and returns no collection; in the hook's loadFromTextures action the
\* error is set and particleData keeps its previous value.
C10_DimensionMismatch ==
    [][\A h \in pending :
        (Mismatched(h) /\ pending' = pending \ {h}) =>
            /\ loadFromTextures(h.positionFile, h.colorFile, h.metadataFile)
                  = [status |-> "error", message |-> DimensionError]
            /\ error' = DimensionError
            /\ particleData' = particleData]_vars

\* A mismatched load has failed while particle data was loaded
C10_Witness == error = DimensionError /\ particleData # Null

-----------------------------------------------------------------------------
(* Properties of useParticleData: loads of JSON, generation, export *)

\* The handler h is at the await after which it calls parseParticleData
AtParse(h) ==
    \/ h.op = "loadFromJSON" /\ h.stage = "json"
    \/ h.op \in {"loadFromFile", "loadCustomJSON"}

\* The step ends the handler h
Finishes(h) == h \in pending /\ pending' = pending \ {h}

\* The step is one of a handler that loads JSON and goes on awaiting
LoadGoesOn ==
    \E h \in pending' \ pending : h.op \in {"loadFromJSON", "loadFromFile", "loadCustomJSON"}

\* The message of the error that the call of parseParticleData made in the
\* step ended with, as the handler h catches it
CaughtMessage(h) ==
    IF h.op = "loadFromFile" /\ h.large
    THEN StreamError(parseResult'.message)
    ELSE parseResult'.message

\* C18: unrecognized format leaves no partial result. When parseParticleData
\* rejects a document inside loadFromJSON, loadFromFile or loadCustomJSON, the
\* error is surfaced in the hook's error state and particleData keeps the
\* value it had: no step of the load, from its start to the catch block,
\* writes particleData.
C18_NoPartialResult ==
    [][/\ \A h \in pending :
            (AtParse(h) /\ Finishes(h) /\ parseResult'.status = "error") =>
                /\ error' = CaughtMessage(h)
                /\ error' # NoError
                /\ particleData' = particleData
       /\ LoadGoesOn => particleData' = particleData]_vars

\* A load of a document of no known format has failed while particle data
\* was loaded
C18_Witness ==
    /\ parseResult # Null /\ parseResult.status = "error"
    /\ parseResult.message = UnknownFormatError
    /\ error = UnknownFormatError
    /\ particleCountOf(particleData) > 0

\* App.tsx: shouldDisableExport
shouldDisableExport == particleCountOf(particleData) = 0 \/ isLoading

\* C19: the loading flag is always released. The step in which a load or an
\* export handler of useParticleData ends, by success or by failure, leaves
\* isLoading false, and so does generateProcedural; so once no operation is in
\* flight the export button is disabled only when there is no particle data.
C19_LoadingReleased ==
    /\ [][/\ \A h \in pending : Finishes(h) => isLoading' = FALSE
          /\ generateProcedural => isLoading' = FALSE]_vars
    /\ [](pending = {} => (shouldDisableExport <=> particleCountOf(particleData) = 0))

\* A load has failed, nothing is in flight, and the particle data loaded
\* before can be exported
C19_Witness ==
    /\ pending = {}
    /\ error = FetchError
    /\ particleCountOf(particleData) > 0
    /\ ~shouldDisableExport

\* The step stores what the handler h parsed out of a large dataset
StoresLargeDataset(h) ==
    /\ AtParse(h) /\ Finishes(h)
    /\ parseResult'.status = "ok"
    /\ particleCountOf(parseResult'.data) > LargeDatasetPoints

\* C20: automatic optimization of large datasets. Whenever a load action of
\* useParticleData stores a collection in particleData, a dataset that had
\* more than LargeDatasetPoints particles has first been subsampled to at most
\* RenderedPoints particles, on every load path.
C20_AutomaticOptimization ==
    [][\A h \in pending :
        StoresLargeDataset(h) =>
            particleCountOf(particleData') <= RenderedPoints]_vars

\* What the code does: loadFromJSON, and with it loadHoudiniData, subsamples a
\* large dataset; loadFromFile does when it is asked to; loadCustomJSON never
C20_OptimizationWhereCalled ==
    [][\A h \in pending :
        StoresLargeDataset(h) =>
            LET asked == \/ h.op = "loadFromJSON"
                         \/ h.op = "loadFromFile" /\ h.optimizeForPerformance
            IN  IF asked
                THEN particleCountOf(particleData') <= RenderedPoints
                ELSE particleData' = parseResult'.data]_vars

\* The step starts a handler that awaits SimpleExporter.exportParticles
InvokesExportParticles ==
    \E h \in pending' \ pending : h.op = "exportTextures" /\ h.stage = "exportParticles"

\* C27: empty-input guard. The exportTextures action never invokes
\* SimpleExporter.exportParticles with a missing or empty collection; in that
\* case it sets error to 'No particle data to export' and leaves isLoading and
\* particleData unchanged.
C27_EmptyInputGuard ==
    [][/\ InvokesExportParticles => particleCountOf(particleData) > 0
       /\ (exportTextures /\ particleCountOf(particleData) = 0) =>
            /\ ~InvokesExportParticles
            /\ error' = NoDataError
            /\ isLoading' = isLoading
            /\ particleData' = particleData]_vars

\* exportTextures was called with no particle data while a load was in flight
C27_Witness ==
    /\ error = NoDataError
    /\ particleCountOf(particleData) = 0
    /\ isLoading
    /\ pending # {}


-----------------------------------------------------------------------------
(* Properties of Scene *)

\* The textures that generateTextures makes of the current particle data
FreshTextures ==
    IF particleData = Null THEN Null
    ELSE LET textures == generateTextures(particleData.particles)
         IN  IF textures.status = "ok" THEN textures.textures ELSE Null

\* C29: once the effects have run, in texture mode non-null textureData are
\* the textures generated from the current particleData, and in json mode
\* textureData is null
C29_TextureCacheFresh ==
    EffectsHaveRun =>
        /\ (visualizationMode = "texture" /\ textureData # Null) =>
                textureData = FreshTextures
        /\ visualizationMode = "json" => textureData = Null

\* The json half of C29: once the effects have run, textureData is null in
\* json mode
C29_JsonModeDropsTextures ==
    (EffectsHaveRun /\ visualizationMode = "json") => textureData = Null

\* Texture mode with stale textures after the effects have run
C29_StaleTextures ==
    /\ EffectsHaveRun
    /\ visualizationMode = "texture"
    /\ textureData # Null
    /\ textureData # FreshTextures

-----------------------------------------------------------------------------
(* Properties of useParticleData: the loading flag *)

\* C30: isLoading is true whenever a load or export started through
\* useParticleData, loadFromTextures included, is still in flight
C30_LoadingCoversInFlight == pending # {} => isLoading

\* The second half of C30: no load of textures stores particleData while
\* another operation is still in flight
C30_NoOverwriteWhileRunning ==
    [][(loadFromTexturesSettle /\ particleData' # particleData) => pending' = {}]_vars

\* What the code does: the loads of JSON set isLoading when they start
C30_JSONLoadsRaiseFlag ==
    [][(loadFromJSON \/ loadHoudiniData \/ loadFromFile \/ loadCustomJSON)
            => isLoading']_vars

\* A load of textures in flight with the flag down
C30_InFlightUnflagged ==
    /\ ~isLoading
    /\ \E h \in pending : h.op = "loadFromTextures"
====
